---- MODULE Spec2Model ----
(***************************************************************************)
(* A model of the crypto/stock portfolio dashboard: the two analyzers      *)
(* (CryptoAnalyzer, StockAnalyzer), the exchange-rate cache, the portfolio *)
(* summaries of app.py, pages/crypto.py and pages/stocks.py, and the       *)
(* refresh callbacks.                                                      *)
(*                                                                         *)
(* Numbers.  Python floats are modelled as fixed-point numbers with four   *)
(* decimals (the integer Fx(1) = 10000 stands for 1.0), so that the        *)
(* hardcoded rates 0.9132, 0.8561 and 0.93 are exact.  A pandas/numpy NaN  *)
(* is the value NaN, which every arithmetic operator propagates.  The      *)
(* result of a float division is kept as an exact fraction (Rat), with     *)
(* denominator 0 for the non-finite results numpy produces when it divides *)
(* by zero.                                                                *)
(***************************************************************************)
EXTENDS Integers, Sequences, FiniteSets, TLC

VARIABLES
    site,              \* which program runs: "app", "crypto" (pages/crypto.py), "stocks" (pages/stocks.py)
    holdings,          \* the configured holdings (CRYPTO_COM_COINS / MY_STOCKS), a sequence of records
    symbols,           \* analyzer.symbols
    data,              \* analyzer.data: symbol -> frame
    exchange_rates,    \* StockAnalyzer.exchange_rates (None or {USD, GBP})
    last_rate_update,  \* StockAnalyzer.last_rate_update
    now,               \* time.time()
    rate_log,          \* the rate providers contacted by the last _get_exchange_rates call, in order
    rate_in,           \* what the two rate providers answered (or would answer) in that call
    requests,          \* the price-history requests issued by the last fetch_data call, in order
    responses,         \* what the price provider answered in the last fetch_data call: symbol -> response
    conv_in,           \* the arguments of the last _convert_to_eur call
    converted,         \* the frame the last _convert_to_eur call returned
    summary,           \* the result of the last portfolio summary
    chart,             \* the chart analyzer of the last refresh callback
    predictions,       \* analyzer.predictions: symbol -> what predict_price stored
    forecast,          \* the last predict_price call: its arguments, its request, what it returned
    result,            \* the outcome of the last refresh callback
    raised,            \* the exception that escaped the last operation ("none" when it returned)
    pc                 \* the position of the program

vars == <<site, holdings, symbols, data, exchange_rates, last_rate_update, now,
          rate_log, rate_in, requests, responses, conv_in, converted, summary,
          chart, predictions, forecast, result, raised, pc>>

----------------------------------------------------------------------------
(* Bounds of the model *)

\* the largest close price the provider answers (in whole units)
MaxPrice == 2
\* the largest number of bars in a fetched series
MaxBars == 2
\* the largest quantity of a configured holding
MaxQty == 2
\* the largest invested amount / average price of a configured holding
MaxInvested == 2
\* the number of clock ticks the rate-cache model follows
MaxTicks == 3
\* the longest history the provider returns to predict_price, in rows
MaxHist == 31

----------------------------------------------------------------------------
(* Floats *)

Scale == 10^4
Fx(n) == n * Scale
NaN == 0 - 2^30

FAdd(a, b) == IF a = NaN \/ b = NaN THEN NaN ELSE a + b
FSub(a, b) == IF a = NaN \/ b = NaN THEN NaN ELSE a - b
\* (a * b) \div Scale, computed from the whole and the fractional part of a so
\* that the product stays within TLC's integers
FMul(a, b) ==
    IF a = NaN \/ b = NaN THEN NaN
    ELSE (a \div Scale) * b + ((a % Scale) * b) \div Scale
\* a / b for b # 0 (Python raises ZeroDivisionError on a float division by zero)
FDiv(a, b) == (a * Scale) \div b

Abs(n) == IF n < 0 THEN 0 - n ELSE n
Sign(n) == IF n < 0 THEN 0 - 1 ELSE IF n > 0 THEN 1 ELSE 0

RECURSIVE GCD(_, _)
GCD(a, b) == IF b = 0 THEN a ELSE GCD(b, a % b)

\* the fraction n/d in lowest terms; d = 0 gives numpy's inf (num 1), -inf
\* (num -1) or nan (num 0); a NaN operand gives nan
RNaN == [num |-> 0, den |-> 0]
Rat(n, d) ==
    IF n = NaN \/ d = NaN THEN RNaN
    ELSE IF d = 0 THEN [num |-> Sign(n), den |-> 0]
    ELSE LET g == GCD(Abs(n), Abs(d))
         IN  [num |-> Sign(d) * (n \div g), den |-> Abs(d) \div g]
RZero == [num |-> 0, den |-> 1]
IsFinite(r) == r.den # 0

\* Python's None, and the empty dict, for the mappings of the model
None == << >>

----------------------------------------------------------------------------
(* Symbols: a ticker is its base name and the suffixes it carries *)

Sym(base, suffix) == [base |-> base, suffix |-> suffix]
InSeq(x, seq) == \E i \in DOMAIN seq : seq[i] = x
\* symbol.endswith(tok)
EndsWith(symbol, tok) ==
    Len(symbol.suffix) > 0 /\ symbol.suffix[Len(symbol.suffix)] = tok

----------------------------------------------------------------------------
(* Frames: a pandas DataFrame of price history *)

AllCols == {"Open", "High", "Low", "Close", "Volume"}
IndicatorCols == {"MA20", "BB_upper", "BB_lower", "MACD", "Signal_Line",
                  "MACD_histogram", "RSI", "Volume_MA20"}

Const(k, v) == [i \in 1..k |-> v]
\* A frame: its columns, its number of rows, its index (the date of each row,
\* a day number), the five provider columns (each empty when the column is
\* missing) and the currency its prices are quoted in.  The price provider
\* quotes in the asset's own currency, USD unless told otherwise.
Bars(opens, highs, lows, closes, volumes) ==
    [cols |-> AllCols, n |-> Len(closes), index |-> [i \in 1..Len(closes) |-> i],
     Open |-> opens, High |-> highs, Low |-> lows, Close |-> closes,
     Volume |-> volumes, ccy |-> "USD"]
\* a frame of flat bars: open, high and low are the close
Frame(closes, volumes) == Bars(closes, closes, closes, closes, volumes)
\* the same frame without column c
Without(df, c) ==
    [df EXCEPT !.cols = @ \ {c},
               !.Open = IF c = "Open" THEN << >> ELSE @,
               !.High = IF c = "High" THEN << >> ELSE @,
               !.Low = IF c = "Low" THEN << >> ELSE @,
               !.Close = IF c = "Close" THEN << >> ELSE @,
               !.Volume = IF c = "Volume" THEN << >> ELSE @]
\* df.empty
Empty(df) == df.n = 0
EmptyFrame == Frame(<< >>, << >>)

----------------------------------------------------------------------------
(* The exchange-rate providers (StockAnalyzer) *)

TTL == 3600
FallbackUSD == 9132
FallbackGBP == 8561
FallbackRates == [USD |-> FallbackUSD, GBP |-> FallbackGBP]

\* What a rate provider can answer to requests.get: the call raises (network
\* error), or returns a status code and a body; the body is not JSON, or is a
\* JSON object with an optional success flag and a (possibly partial) "rates"
\* object quoting one euro in USD and GBP.
GoodQuote == Fx(5) \div 4
RatePayloads ==
    {None, [USD |-> 0, GBP |-> GoodQuote], [USD |-> GoodQuote, GBP |-> Fx(1)]}
RateResponses ==
    {[raises |-> TRUE, status_code |-> 0, json |-> FALSE, success |-> FALSE, rates |-> None],
     [raises |-> FALSE, status_code |-> 500, json |-> FALSE, success |-> FALSE, rates |-> None],
     [raises |-> FALSE, status_code |-> 200, json |-> FALSE, success |-> FALSE, rates |-> None]}
    \cup {[raises |-> FALSE, status_code |-> 200, json |-> TRUE, success |-> f, rates |-> r] :
             f \in BOOLEAN, r \in RatePayloads}

\* {'USD': 1/data['rates']['USD'], 'GBP': 1/data['rates']['GBP']} raises
\* KeyError on a missing key and ZeroDivisionError on a zero quote
PayloadRaises(resp) ==
    \/ ~({"USD", "GBP"} \subseteq DOMAIN resp.rates)
    \/ resp.rates["USD"] = 0
    \/ resp.rates["GBP"] = 0
InverseRates(resp) ==
    [USD |-> FDiv(Fx(1), resp.rates["USD"]), GBP |-> FDiv(Fx(1), resp.rates["GBP"])]

Primary == "exchangerate.host"
Secondary == "frankfurter.app"

\* The try block of _get_exchange_rates, given what the primary (p) and the
\* secondary (s) provider answer when asked: the providers asked, and whether
\* the block returned rates, raised, or fell through.
TryGetExchangeRates(p, s) ==
    LET out(ret, rates, log, exc) ==
            [returned |-> ret, rates |-> rates, log |-> log, raised |-> exc]
    IN  IF p.raises
        THEN out(FALSE, None, <<Primary>>, "ConnectionError")
        ELSE IF p.status_code = 200 /\ ~p.json
        THEN out(FALSE, None, <<Primary>>, "JSONDecodeError")
        ELSE IF p.status_code = 200 /\ p.success
        THEN IF PayloadRaises(p)
             THEN out(FALSE, None, <<Primary>>, "KeyError")
             ELSE out(TRUE, InverseRates(p), <<Primary>>, "none")
        ELSE IF s.raises
        THEN out(FALSE, None, <<Primary, Secondary>>, "ConnectionError")
        ELSE IF s.status_code = 200
        THEN IF ~s.json
             THEN out(FALSE, None, <<Primary, Secondary>>, "JSONDecodeError")
             ELSE IF PayloadRaises(s)
             THEN out(FALSE, None, <<Primary, Secondary>>, "KeyError")
             ELSE out(TRUE, InverseRates(s), <<Primary, Secondary>>, "none")
        ELSE out(FALSE, None, <<Primary, Secondary>>, "none")

\* A faulty variant of _get_exchange_rates: the final return of the hardcoded
\* rates is missing, so the method returns None when the try block did not
\* return.
_get_exchange_rates_no_fallback(p, s) ==
    LET t == TryGetExchangeRates(p, s)
    IN  IF t.returned
        THEN [rates |-> t.rates, log |-> t.log, raised |-> "none"]
        ELSE [rates |-> None, log |-> t.log, raised |-> "none"]

\* _get_exchange_rates: the one except clause catches every exception of the
\* try block, and the hardcoded rates are returned whenever the block did not
\* return
_get_exchange_rates(p, s) ==
    LET t == TryGetExchangeRates(p, s)
    IN  IF t.returned
        THEN [rates |-> t.rates, log |-> t.log, raised |-> "none"]
        ELSE [rates |-> FallbackRates, log |-> t.log, raised |-> "none"]

\* a variant of the guard that also refreshes at exactly one hour
Stale_at_ttl(er, last, t) == DOMAIN er = {} \/ (t - last) >= TTL

\* the guard of _update_exchange_rates at time t
Stale(er, last, t) == DOMAIN er = {} \/ (t - last) > TTL

\* _update_exchange_rates at time t on the cache (er, last)
_update_exchange_rates(er, last, t, p, s) ==
    IF Stale(er, last, t)
    THEN LET r == _get_exchange_rates(p, s)
         IN  [exchange_rates |-> r.rates, last_rate_update |-> t,
              log |-> r.log, raised |-> r.raised]
    ELSE [exchange_rates |-> er, last_rate_update |-> last,
          log |-> << >>, raised |-> "none"]

\* Series.astype(int): truncation, and a ValueError for a NaN
AsTypeIntRaises(col) == \E i \in DOMAIN col : col[i] = NaN
AsTypeInt(col) == [i \in DOMAIN col |-> (col[i] \div Scale) * Scale]

\* df[col] * rate for a price column that is present
Scaled(df, col, rate) ==
    IF col \in df.cols THEN [i \in DOMAIN df[col] |-> FMul(df[col][i], rate)] ELSE df[col]

\* a variant that takes the USD rate for every symbol
_convert_to_eur_usd_only(er, df, symbol) ==
    IF DOMAIN er = {}
    THEN [df |-> EmptyFrame, raised |-> "TypeError"]
    ELSE IF "Volume" \in df.cols /\ AsTypeIntRaises(df.Volume)
    THEN [df |-> EmptyFrame, raised |-> "ValueError"]
    ELSE [df |-> [df EXCEPT !.Open = Scaled(df, "Open", er["USD"]),
                            !.High = Scaled(df, "High", er["USD"]),
                            !.Low = Scaled(df, "Low", er["USD"]),
                            !.Close = Scaled(df, "Close", er["USD"]),
                            !.Volume = IF "Volume" \in df.cols
                                       THEN AsTypeInt(df.Volume) ELSE df.Volume,
                            !.ccy = "EUR"],
          raised |-> "none"]

\* _convert_to_eur(df, symbol) after its call of _update_exchange_rates, with
\* er the cached rates: the new frame, or the exception raised
_convert_to_eur(er, df, symbol) ==
    IF DOMAIN er = {}
    THEN [df |-> EmptyFrame, raised |-> "TypeError"]
    ELSE LET rate == IF EndsWith(symbol, ".L") THEN er["GBP"] ELSE er["USD"]
         IN  IF "Volume" \in df.cols /\ AsTypeIntRaises(df.Volume)
             THEN [df |-> EmptyFrame, raised |-> "ValueError"]
             ELSE [df |-> [df EXCEPT !.Open = Scaled(df, "Open", rate),
                                     !.High = Scaled(df, "High", rate),
                                     !.Low = Scaled(df, "Low", rate),
                                     !.Close = Scaled(df, "Close", rate),
                                     !.Volume = IF "Volume" \in df.cols
                                                THEN AsTypeInt(df.Volume)
                                                ELSE df.Volume,
                                     !.ccy = "EUR"],
                   raised |-> "none"]

----------------------------------------------------------------------------
(* The price-history provider and the two fetchers *)

\* what yf.Ticker(key).history(...) does: it raises, or it returns a frame
HistResponse(raises, df) == [raises |-> raises, df |-> df]
\* the outcome of a fetcher: None, or a frame
NoData == [none |-> TRUE, df |-> EmptyFrame]
Some(df) == [none |-> FALSE, df |-> df]

\* the provider key get_crypto_data asks for
CryptoTicker(symbol) ==
    IF ~InSeq("-USD", symbol.suffix) /\ ~(EndsWith(symbol, "USD") \/ EndsWith(symbol, "-USD"))
    THEN Sym(symbol.base, Append(symbol.suffix, "-USD"))
    ELSE symbol
CryptoInterval(period) == IF period = "1d" THEN "1m" ELSE "1d"
CryptoRequest(symbol, period) ==
    [key |-> CryptoTicker(symbol), period |-> period, interval |-> CryptoInterval(period)]

\* get_crypto_data(symbol, period), resp being the provider's answer: only an
\* empty frame and an exception are turned into None
get_crypto_data(symbol, period, resp) ==
    IF resp.raises THEN NoData
    ELSE IF Empty(resp.df) THEN NoData
    ELSE Some(resp.df)

StockInterval(period) ==
    IF period = "1d" THEN "1m"
    ELSE IF period = "5d" THEN "5m"
    ELSE IF period \in {"1mo", "3mo"} THEN "15m"
    ELSE "1d"
StockRequest(symbol, period) ==
    [key |-> symbol, period |-> period, interval |-> StockInterval(period)]

\* Series.isnull().all()
AllNull(col) == \A i \in DOMAIN col : col[i] = NaN
\* Series.ffill(): each null takes the last value before it, if there is one
RECURSIVE Ffill(_)
Ffill(col) ==
    IF Len(col) <= 1 THEN col
    ELSE LET head == Ffill(SubSeq(col, 1, Len(col) - 1))
             last == col[Len(col)]
         IN  Append(head, IF last = NaN THEN head[Len(head)] ELSE last)

\* get_stock_data(symbol, period), resp being the provider's answer
get_stock_data(symbol, period, resp) ==
    IF resp.raises THEN NoData
    ELSE IF Empty(resp.df) THEN NoData
    ELSE IF ~(AllCols \subseteq resp.df.cols) THEN NoData
    ELSE IF AllNull(resp.df.Close) THEN NoData
    ELSE Some([resp.df EXCEPT !.Open = Ffill(@), !.High = Ffill(@), !.Low = Ffill(@),
                              !.Close = Ffill(@), !.Volume = Ffill(@)])

\* self.data[symbol] = df
Put(d, symbol, df) == [x \in DOMAIN d \cup {symbol} |-> IF x = symbol THEN df ELSE d[x]]

\* calculate_indicators on one frame, which gains the derived columns in place:
\* df['Close'] raises KeyError when the column is missing, before any column
\* is added, and df['Volume'] raises it after the seven price indicators were
\* added
PriceIndicatorCols == IndicatorCols \ {"Volume_MA20"}
IndicatorsOf(df) ==
    IF "Close" \notin df.cols THEN [df |-> df, raised |-> "KeyError"]
    ELSE IF "Volume" \notin df.cols
    THEN [df |-> [df EXCEPT !.cols = @ \cup PriceIndicatorCols], raised |-> "KeyError"]
    ELSE [df |-> [df EXCEPT !.cols = @ \cup IndicatorCols], raised |-> "none"]

\* calculate_indicators: the frames of self.data in insertion order, which is
\* the order of self.symbols; it stops at the first exception
RECURSIVE CalcLoop(_, _, _)
CalcLoop(syms, d, i) ==
    IF i > Len(syms) THEN [data |-> d, raised |-> "none"]
    ELSE IF syms[i] \notin DOMAIN d \/ Empty(d[syms[i]]) THEN CalcLoop(syms, d, i + 1)
    ELSE LET r == IndicatorsOf(d[syms[i]])
             d2 == Put(d, syms[i], r.df)
         IN  IF r.raised # "none" THEN [data |-> d2, raised |-> r.raised]
             ELSE CalcLoop(syms, d2, i + 1)
calculate_indicators(syms, d) == CalcLoop(syms, d, 1)

\* The body of the loop of CryptoAnalyzer.fetch_data for one symbol: the new
\* self.data.  The try block swallows every exception.
CryptoFetchOne(d, symbol, period, resp) ==
    LET r == get_crypto_data(symbol, period, resp)
    IN  IF r.none THEN d ELSE Put(d, symbol, r.df)

\* The body of the loop of StockAnalyzer.fetch_data for one symbol, er being
\* the cached rates: an exception of
\* _convert_to_eur is swallowed and nothing is stored.
StockFetchOne(d, er, symbol, period, resp) ==
    LET r == get_stock_data(symbol, period, resp)
    IN  IF r.none THEN d
        ELSE LET c == _convert_to_eur(er, r.df, symbol)
             IN  IF c.raised # "none" THEN d ELSE Put(d, symbol, c.df)

\* a variant whose loop ends at the first symbol that gave nothing
RECURSIVE FetchLoop_until_failure(_, _, _, _, _, _, _)
FetchLoop_until_failure(kind, syms, acc, er, period, resp, i) ==
    IF i > Len(syms) THEN acc
    ELSE LET symbol == syms[i]
             req == IF kind = "stock" THEN StockRequest(symbol, period)
                    ELSE CryptoRequest(symbol, period)
             d == IF kind = "stock"
                  THEN StockFetchOne(acc.data, er, symbol, period, resp[symbol])
                  ELSE CryptoFetchOne(acc.data, symbol, period, resp[symbol])
             acc2 == [data |-> d, requests |-> Append(acc.requests, req)]
         IN  IF symbol \notin DOMAIN d THEN acc2
             ELSE FetchLoop_until_failure(kind, syms, acc2, er, period, resp, i + 1)

\* a variant that asks once more for a symbol whose fetch gave nothing
RECURSIVE FetchLoop_retrying(_, _, _, _, _, _, _)
FetchLoop_retrying(kind, syms, acc, er, period, resp, i) ==
    IF i > Len(syms) THEN acc
    ELSE LET symbol == syms[i]
             req == IF kind = "stock" THEN StockRequest(symbol, period)
                    ELSE CryptoRequest(symbol, period)
             d == IF kind = "stock"
                  THEN StockFetchOne(acc.data, er, symbol, period, resp[symbol])
                  ELSE CryptoFetchOne(acc.data, symbol, period, resp[symbol])
             reqs == IF symbol \in DOMAIN d THEN <<req>> ELSE <<req, req>>
         IN  FetchLoop_retrying(kind, syms,
                                [data |-> d, requests |-> acc.requests \o reqs],
                                er, period, resp, i + 1)

\* the loop of fetch_data from the i-th symbol on, acc being self.data and the
\* requests issued so far: a symbol whose fetch gave nothing changes nothing,
\* and the loop goes on to the next symbol
RECURSIVE FetchLoop(_, _, _, _, _, _, _)
FetchLoop(kind, syms, acc, er, period, resp, i) ==
    IF i > Len(syms) THEN acc
    ELSE LET symbol == syms[i]
             req == IF kind = "stock" THEN StockRequest(symbol, period)
                    ELSE CryptoRequest(symbol, period)
             d == IF kind = "stock"
                  THEN StockFetchOne(acc.data, er, symbol, period, resp[symbol])
                  ELSE CryptoFetchOne(acc.data, symbol, period, resp[symbol])
         IN  FetchLoop(kind, syms,
                       [data |-> d, requests |-> Append(acc.requests, req)],
                       er, period, resp, i + 1)

\* fetch_data(period) of an analyzer of the given kind ("crypto" or "stock")
\* with self.symbols = syms and self.data = d, resp[symbol] being the
\* provider's answer for each symbol: the requests issued, the new self.data,
\* and the exception that escapes, which can only come from the closing
\* calculate_indicators call
fetch_data(kind, syms, d, er, period, resp) ==
    LET fetched == FetchLoop(kind, syms, [data |-> d, requests |-> << >>],
                             er, period, resp, 1)
        calc == calculate_indicators(syms, fetched.data)
    IN  [requests |-> fetched.requests, data |-> calc.data, raised |-> calc.raised]

----------------------------------------------------------------------------
(* The values calculate_indicators computes.  Columns are sequences of       *)
(* fixed-point numbers with NaN for "no value"; RSI is kept as an exact      *)
(* fraction.  The EMA columns are defined for a Close without nulls, which   *)
(* is what the series of SpecIndicators are.                                 *)

\* the windows and spans of calculate_indicators
BBWindow == 20
RSIWindow == 14
MACDFast == 12
MACDSlow == 26
MACDSignal == 9

RECURSIVE Sum(_)
Sum(x) == IF x = << >> THEN 0 ELSE x[1] + Sum(Tail(x))
HasNaN(x) == \E i \in DOMAIN x : x[i] = NaN
\* the w values that end at index i
Window(x, i, w) == SubSeq(x, i - w + 1, i)

\* Series.rolling(window=w).mean(): no value before w values are there, or
\* when one of them is null
RollingMean(x, w) ==
    [i \in DOMAIN x |->
        IF i < w \/ HasNaN(Window(x, i, w)) THEN NaN ELSE Sum(Window(x, i, w)) \div w]

\* the integer square root, by bisection between lo and hi
RECURSIVE SqrtBetween(_, _, _)
SqrtBetween(n, lo, hi) ==
    IF hi - lo <= 1 THEN lo
    ELSE LET mid == (lo + hi) \div 2
         IN  IF mid * mid <= n THEN SqrtBetween(n, mid, hi) ELSE SqrtBetween(n, lo, mid)
ISqrt(n) == SqrtBetween(n, 0, 46340)

\* std * 2 of Series.rolling(window=w).std() (the sample deviation), to one
\* decimal: with d[k] = w * x[k] - sum(x) in tenths, the variance is
\* sum(d[k]^2) / (w^2 * (w - 1)), so 2 * std = sqrt(4 * sum(d[k]^2) / (w^2 * (w - 1)))
\* a variant that takes the deviation with the wrong sign
TwoStdOf_negated(win, w) ==
    LET tenths == [k \in DOMAIN win |-> win[k] \div (Scale \div 10)]
        dev == [k \in DOMAIN win |-> w * tenths[k] - Sum(tenths)]
        q == Sum([k \in DOMAIN win |-> dev[k] * dev[k]])
    IN  0 - ISqrt((4 * q) \div (w * w * (w - 1))) * (Scale \div 10)
TwoStdOf(win, w) ==
    LET tenths == [k \in DOMAIN win |-> win[k] \div (Scale \div 10)]
        dev == [k \in DOMAIN win |-> w * tenths[k] - Sum(tenths)]
        q == Sum([k \in DOMAIN win |-> dev[k] * dev[k]])
    IN  ISqrt((4 * q) \div (w * w * (w - 1))) * (Scale \div 10)
RollingTwoStd(x, w) ==
    [i \in DOMAIN x |->
        IF i < w \/ HasNaN(Window(x, i, w)) THEN NaN ELSE TwoStdOf(Window(x, i, w), w)]

\* Series.ewm(span=span, adjust=False).mean() of a series without nulls: the
\* first value is the first input, and each further value is
\* (1 - alpha) * previous + alpha * input with alpha = 2 / (span + 1); every
\* index has a value (min_periods is 0)
\* a variant that weighs the input by 1 / span
RECURSIVE EwmMean_weight_one_over_span(_, _)
EwmMean_weight_one_over_span(x, span) ==
    IF Len(x) <= 1 THEN x
    ELSE LET prev == EwmMean_weight_one_over_span(SubSeq(x, 1, Len(x) - 1), span)
         IN  Append(prev, ((span - 1) * prev[Len(prev)] + x[Len(x)]) \div span)
RECURSIVE EwmMean(_, _)
EwmMean(x, span) ==
    IF Len(x) <= 1 THEN x
    ELSE LET prev == EwmMean(SubSeq(x, 1, Len(x) - 1), span)
         IN  Append(prev, ((span - 1) * prev[Len(prev)] + 2 * x[Len(x)]) \div (span + 1))

\* a variant that takes the difference to the next row
Diff_forward(x) ==
    [i \in DOMAIN x |-> IF i = Len(x) THEN NaN ELSE FSub(x[i + 1], x[i])]
\* Series.diff()
Diff(x) == [i \in DOMAIN x |-> IF i = 1 THEN NaN ELSE FSub(x[i], x[i - 1])]
\* delta.where(delta > 0, 0) and -delta.where(delta < 0, 0): a null delta
\* fails the test and becomes 0
Gains(delta) == [i \in DOMAIN delta |-> IF delta[i] # NaN /\ delta[i] > 0 THEN delta[i] ELSE 0]
\* a variant that leaves out the minus sign
Losses_signed(delta) ==
    [i \in DOMAIN delta |-> IF delta[i] # NaN /\ delta[i] < 0 THEN delta[i] ELSE 0]
Losses(delta) == [i \in DOMAIN delta |-> IF delta[i] # NaN /\ delta[i] < 0 THEN 0 - delta[i] ELSE 0]
\* rs = gain / loss and 100 - (100 / (1 + rs)) in numpy floats, which never
\* raise: x / 0 is inf, -inf or (for x = 0) nan, and 100 / inf is 0
\* a variant for which a zero average loss gives no value
RSIOf_null_on_zero_loss(gain, loss) ==
    LET rs == Rat(gain, loss)
    IN  IF rs = RNaN \/ rs.den = 0 THEN RNaN
        ELSE Rat(100 * rs.num, rs.num + rs.den)
RSIOf(gain, loss) ==
    LET rs == Rat(gain, loss)
    IN  IF rs = RNaN THEN RNaN
        ELSE IF rs.den = 0 THEN Rat(100, 1)
        ELSE IF rs.num + rs.den = 0 THEN Rat(0 - 1, 0)
        ELSE Rat(100 * rs.num, rs.num + rs.den)
RSIColumn(close) ==
    LET gain == RollingMean(Gains(Diff(close)), RSIWindow)
        loss == RollingMean(Losses(Diff(close)), RSIWindow)
    IN  [i \in DOMAIN close |-> RSIOf(gain[i], loss[i])]

MACDColumn(close) ==
    LET exp1 == EwmMean(close, MACDFast)
        exp2 == EwmMean(close, MACDSlow)
    IN  [i \in DOMAIN close |-> FSub(exp1[i], exp2[i])]

\* one frame after calculate_indicators: the derived columns it gains
WithIndicators(df) ==
    LET ma20 == RollingMean(df.Close, BBWindow)
        std2 == RollingTwoStd(df.Close, BBWindow)
        macd == MACDColumn(df.Close)
        signal == EwmMean(macd, MACDSignal)
    IN  [cols |-> df.cols \cup IndicatorCols, n |-> df.n, index |-> df.index,
         Open |-> df.Open, High |-> df.High, Low |-> df.Low, Close |-> df.Close,
         Volume |-> df.Volume, ccy |-> df.ccy,
         MA20 |-> ma20,
         BB_upper |-> [i \in DOMAIN ma20 |-> FAdd(ma20[i], std2[i])],
         BB_lower |-> [i \in DOMAIN ma20 |-> FSub(ma20[i], std2[i])],
         MACD |-> macd,
         Signal_Line |-> signal,
         MACD_histogram |-> [i \in DOMAIN macd |-> FSub(macd[i], signal[i])],
         RSI |-> RSIColumn(df.Close),
         Volume_MA20 |-> RollingMean(df.Volume, BBWindow)]

\* calculate_indicators over self.data whose frames have the five columns:
\* every frame that is not empty gains the derived columns
CalculateValues(d) ==
    [x \in DOMAIN d |-> IF Empty(d[x]) THEN d[x] ELSE WithIndicators(d[x])]

----------------------------------------------------------------------------
(* The portfolio summaries *)

\* a / b * 100 in numpy floats
Pct(a, b) == IF a = NaN \/ b = NaN THEN RNaN ELSE Rat(a * 100, b)
Minus100 == Rat(0 - 100, 1)

\* A configured holding.  cost is invested_eur in CRYPTO_COM_COINS (app.py and
\* pages/crypto.py) and avg_price in MY_STOCKS (pages/stocks.py); quantity is
\* called balance in app.py.
Holding(symbol, quantity, cost) == [symbol |-> symbol, quantity |-> quantity, cost |-> cost]

FallbackEUR == 9300
\* get_usd_eur_rate(), resp being the provider's answer: the EUR quote, or
\* 0.93 when anything raises
get_usd_eur_rate(resp) ==
    IF resp.raises \/ "EUR" \notin DOMAIN resp.rates THEN FallbackEUR
    ELSE resp.rates["EUR"]

\* a variant that reports no loss for an unpriced coin
AppZeroRow_no_loss(coin) ==
    [symbol |-> coin.symbol, balance |-> coin.quantity, price_eur |-> 0,
     value_eur |-> 0, invested_eur |-> coin.cost, profit_eur |-> 0,
     profit_percentage |-> RZero, change_24h |-> RZero, price_ccy |-> "EUR"]

\* the row get_portfolio_summary appends when there is no price, or on an
\* exception
AppZeroRow(coin) ==
    [symbol |-> coin.symbol, balance |-> coin.quantity, price_eur |-> 0,
     value_eur |-> 0, invested_eur |-> coin.cost, profit_eur |-> 0 - coin.cost,
     profit_percentage |-> Minus100, change_24h |-> RZero, price_ccy |-> "EUR"]

\* the body of the loop of get_portfolio_summary for one coin: the row
\* appended and what is added to total_eur
AppRow(coin, d, eur_rate) ==
    LET symbol == coin.symbol
        invested == coin.cost
    IN  IF symbol \in DOMAIN d /\ ~Empty(d[symbol]) /\ d[symbol].n >= 2
        THEN IF "Close" \notin d[symbol].cols
             THEN [row |-> AppZeroRow(coin), added |-> 0]
             ELSE LET df == d[symbol]
                      current_price_usd == df.Close[df.n]
                      previous_price_usd == df.Close[df.n - 1]
                      current_price_eur == FMul(current_price_usd, eur_rate)
                      value_eur == FMul(coin.quantity, current_price_eur)
                  IN  [row |-> [symbol |-> symbol, balance |-> coin.quantity,
                                price_eur |-> current_price_eur,
                                value_eur |-> value_eur,
                                invested_eur |-> invested,
                                profit_eur |-> FSub(value_eur, invested),
                                profit_percentage |->
                                    IF invested > 0
                                    THEN Pct(FSub(value_eur, invested), invested)
                                    ELSE RZero,
                                change_24h |->
                                    Pct(FSub(current_price_usd, previous_price_usd),
                                        previous_price_usd),
                                price_ccy |->
                                    IF df.ccy = "USD" THEN "EUR" ELSE "unknown"],
                       added |-> value_eur]
        ELSE [row |-> AppZeroRow(coin), added |-> 0]

RECURSIVE AppLoop(_, _, _, _, _)
AppLoop(coins, d, eur_rate, acc, i) ==
    IF i > Len(coins) THEN acc
    ELSE LET r == AppRow(coins[i], d, eur_rate)
         IN  AppLoop(coins, d, eur_rate,
                     [rows |-> Append(acc.rows, r.row),
                      total_invested |-> acc.total_invested + coins[i].cost,
                      total_current |-> FAdd(acc.total_current, r.added)],
                     i + 1)

\* a variant that reports the total value as the total profit
get_portfolio_summary_gross(coins, d, eur_rate) ==
    LET acc == AppLoop(coins, d, eur_rate,
                       [rows |-> << >>, total_invested |-> 0, total_current |-> 0], 1)
    IN  [rows |-> acc.rows,
         total_invested |-> acc.total_invested,
         total_current |-> acc.total_current,
         total_profit |-> acc.total_current,
         total_pct |-> IF acc.total_invested > 0
                       THEN Pct(FSub(acc.total_current, acc.total_invested),
                                acc.total_invested)
                       ELSE RZero,
         eur_rate |-> eur_rate,
         raised |-> "none"]

\* get_portfolio_summary(analyzer) of app.py over the configured coins, d
\* being analyzer.data and eur_rate what get_usd_eur_rate() returned;
\* total_current is the total_eur of the code
get_portfolio_summary(coins, d, eur_rate) ==
    LET acc == AppLoop(coins, d, eur_rate,
                       [rows |-> << >>, total_invested |-> 0, total_current |-> 0], 1)
    IN  [rows |-> acc.rows,
         total_invested |-> acc.total_invested,
         total_current |-> acc.total_current,
         total_profit |-> FSub(acc.total_current, acc.total_invested),
         total_pct |-> IF acc.total_invested > 0
                       THEN Pct(FSub(acc.total_current, acc.total_invested),
                                acc.total_invested)
                       ELSE RZero,
         eur_rate |-> eur_rate,
         raised |-> "none"]

\* invested = quantity * avg_price of create_portfolio_summary.  In
\* pages/crypto.py avg_price is avg_price_eur = invested_eur / quantity, so
\* the product is invested_eur again.
PageInvested(page, item) ==
    IF page = "crypto" THEN item.cost ELSE FMul(item.quantity, item.cost)
\* avg_price as a fraction
PageAvgPrice(page, item) ==
    IF page = "crypto" THEN Rat(item.cost, item.quantity) ELSE Rat(item.cost, Scale)
\* ((current_price - avg_price) / avg_price) * 100, a numpy division with no
\* guard on avg_price.  In pages/crypto.py, with avg_price the fraction
\* invested_eur / quantity, this is
\* (current_price * quantity - invested_eur) / invested_eur * 100.
PageChangePct(page, item, current_price) ==
    IF page = "crypto"
    THEN Pct(FSub(FMul(current_price, item.quantity), item.cost), item.cost)
    ELSE Pct(FSub(current_price, item.cost), item.cost)

\* the row create_portfolio_summary appends for a priced holding
PageRow(page, item, df) ==
    LET current_price == df.Close[df.n]
        invested == PageInvested(page, item)
        current_value == FMul(item.quantity, current_price)
    IN  [symbol |-> item.symbol, quantity |-> item.quantity,
         avg_price |-> PageAvgPrice(page, item),
         current_price |-> current_price,
         invested |-> invested,
         current_value |-> current_value,
         change_pct |-> PageChangePct(page, item, current_price),
         profit_loss |-> FSub(current_value, invested),
         price_ccy |-> df.ccy]

\* the loop of create_portfolio_summary: a holding with no frame, or an empty
\* one, is skipped altogether; a frame without Close raises KeyError
RECURSIVE PageLoop(_, _, _, _, _)
PageLoop(page, items, d, acc, i) ==
    IF i > Len(items) THEN acc
    ELSE LET symbol == items[i].symbol
         IN  IF symbol \in DOMAIN d /\ ~Empty(d[symbol])
             THEN IF "Close" \notin d[symbol].cols
                  THEN [acc EXCEPT !.raised = "KeyError"]
                  ELSE LET row == PageRow(page, items[i], d[symbol])
                       IN  PageLoop(page, items, d,
                                    [rows |-> Append(acc.rows, row),
                                     total_invested |-> acc.total_invested + row.invested,
                                     total_current |-> FAdd(acc.total_current, row.current_value),
                                     raised |-> "none"],
                                    i + 1)
             ELSE PageLoop(page, items, d, acc, i + 1)

\* a variant that divides by total_invested without the guard
create_portfolio_summary_unguarded(page, items, d) ==
    LET acc == PageLoop(page, items, d,
                        [rows |-> << >>, total_invested |-> 0, total_current |-> 0,
                         raised |-> "none"], 1)
    IN  [rows |-> acc.rows,
         total_invested |-> acc.total_invested,
         total_current |-> acc.total_current,
         total_profit |-> FSub(acc.total_current, acc.total_invested),
         total_pct |-> Pct(FSub(acc.total_current, acc.total_invested),
                           acc.total_invested),
         raised |-> acc.raised]

\* create_portfolio_summary(analyzer) of pages/crypto.py (page = "crypto") and
\* pages/stocks.py (page = "stocks"), d being analyzer.data; total_pct is the
\* total_change_pct of the code
create_portfolio_summary(page, items, d) ==
    LET acc == PageLoop(page, items, d,
                        [rows |-> << >>, total_invested |-> 0, total_current |-> 0,
                         raised |-> "none"], 1)
    IN  [rows |-> acc.rows,
         total_invested |-> acc.total_invested,
         total_current |-> acc.total_current,
         total_profit |-> FSub(acc.total_current, acc.total_invested),
         total_pct |-> IF acc.total_invested > 0
                       THEN Pct(FSub(acc.total_current, acc.total_invested),
                                acc.total_invested)
                       ELSE RZero,
         raised |-> acc.raised]

----------------------------------------------------------------------------
(* SpecRates: one StockAnalyzer and its exchange-rate cache over time *)

Epoch == 10^6
TickSteps == {1, TTL}
\* the number of ticks that led to time t
Ticks(t) == ((t - Epoch) \div TTL) + ((t - Epoch) % TTL)

StockSyms == {Sym("BAC", << >>), Sym("CNDX", <<".L">>)}

\* the frames _convert_to_eur is given here: one bar, with a whole, a
\* fractional or a null volume, with one of the columns missing, or with an
\* open, a high and a low that differ from the close
RateFrames ==
    {Frame(<<c>>, <<v>>) : c \in {NaN, Fx(1)}, v \in {NaN, Fx(1), Fx(3) \div 2}}
    \cup {Without(Frame(<<Fx(1)>>, <<Fx(1)>>), c) : c \in {"Close", "Volume"}}
    \cup {Bars(<<Fx(3) \div 2>>, <<Fx(2)>>, <<Fx(1) \div 2>>, <<Fx(1)>>, <<Fx(3) \div 2>>)}

NoRateIn == [primary |-> FALSE, secondary |-> FALSE]

InitRates ==
    /\ site = "stocks"
    /\ holdings = << >>
    /\ symbols = << >>
    /\ data = None
    /\ exchange_rates = None
    /\ last_rate_update = 0
    /\ now = Epoch
    /\ rate_log = << >>
    /\ rate_in = << >>
    /\ requests = << >>
    /\ responses = None
    /\ conv_in = << >>
    /\ converted = EmptyFrame
    /\ summary = None
    /\ chart = None
    /\ predictions = None
    /\ forecast = None
    /\ result = None
    /\ raised = "none"
    /\ pc = "new"

\* StockAnalyzer.__init__: the fields, then _update_exchange_rates()
RConstruct(p, s) ==
    /\ pc = "new"
    /\ LET u == _update_exchange_rates(None, 0, now, p, s)
       IN  /\ exchange_rates' = u.exchange_rates
           /\ last_rate_update' = u.last_rate_update
           /\ rate_log' = u.log
           /\ rate_in' = <<p, s>>
           /\ raised' = u.raised
    /\ symbols' = << >>
    /\ data' = None
    /\ conv_in' = << >>
    /\ converted' = EmptyFrame
    /\ pc' = "ready"
    /\ UNCHANGED <<site, holdings, chart, predictions, forecast,
                   now, requests, responses, summary, result>>

\* time passes
RTick(d) ==
    /\ pc = "ready"
    /\ Ticks(now) < MaxTicks
    /\ now' = now + d
    /\ UNCHANGED <<site, holdings, chart, predictions, forecast,
                   symbols, data, exchange_rates, last_rate_update,
                   rate_log, rate_in, requests, responses, conv_in, converted,
                   summary, result, raised, pc>>

\* _convert_to_eur, its first statement: self._update_exchange_rates()
RUpdate(p, s) ==
    /\ pc = "ready"
    /\ LET u == _update_exchange_rates(exchange_rates, last_rate_update, now, p, s)
       IN  /\ exchange_rates' = u.exchange_rates
           /\ last_rate_update' = u.last_rate_update
           /\ rate_log' = u.log
           /\ rate_in' = IF u.log = << >> THEN << >> ELSE <<p, s>>
           /\ raised' = u.raised
    /\ conv_in' = << >>
    /\ converted' = EmptyFrame
    /\ pc' = "converting"
    /\ UNCHANGED <<site, holdings, chart, predictions, forecast,
                   symbols, data, now, requests, responses,
                   summary, result>>

\* _convert_to_eur(df, symbol), the rest of it
RConvert(df, symbol) ==
    /\ pc = "converting"
    /\ LET c == _convert_to_eur(exchange_rates, df, symbol)
       IN  /\ converted' = c.df
           /\ raised' = c.raised
    /\ conv_in' = <<df, symbol>>
    /\ pc' = "ready"
    /\ UNCHANGED <<site, holdings, chart, predictions, forecast,
                   symbols, data, exchange_rates, last_rate_update,
                   now, rate_log, rate_in, requests, responses, summary, result>>

\* the analyzer is dropped; the next refresh builds a new one
RDrop ==
    /\ pc = "ready"
    /\ exchange_rates' = None
    /\ last_rate_update' = 0
    /\ rate_log' = << >>
    /\ rate_in' = << >>
    /\ conv_in' = << >>
    /\ converted' = EmptyFrame
    /\ raised' = "none"
    /\ pc' = "new"
    /\ UNCHANGED <<site, holdings, chart, predictions, forecast,
                   symbols, data, now, requests, responses,
                   summary, result>>

NextRates ==
    \/ \E p \in RateResponses, s \in RateResponses : RConstruct(p, s)
    \/ \E d \in TickSteps : RTick(d)
    \/ IF Stale(exchange_rates, last_rate_update, now)
       THEN \E p \in RateResponses, s \in RateResponses : RUpdate(p, s)
       ELSE RUpdate(NoRateIn, NoRateIn)
    \/ \E df \in RateFrames, symbol \in StockSyms : RConvert(df, symbol)
    \/ RDrop

SpecRates == InitRates /\ [][NextRates]_vars

----------------------------------------------------------------------------
(* Spec: one refresh of a portfolio summary, from the construction of the    *)
(* portfolio analyzer to the summary, in each of the three programs          *)

Sites == {"app", "crypto", "stocks"}
\* the analyzer class a program uses
Kind(s) == IF s = "stocks" THEN "stock" ELSE "crypto"

CryptoSyms == <<Sym("CRO", << >>), Sym("ETH", << >>)>>
StockSymSeq == <<Sym("BAC", << >>), Sym("CNDX", <<".L">>)>>
PortfolioSyms(s) == IF s = "stocks" THEN StockSymSeq ELSE CryptoSyms
Range(seq) == {seq[i] : i \in DOMAIN seq}

\* the holdings a program can be configured with: quantities are positive
\* (pages/crypto.py divides by them when it is loaded), costs may be zero;
\* the first holding is one unit
Quantities == {Fx(1), Fx(MaxQty)}
Costs == {0, Fx(MaxInvested)}
Configs(s) ==
    {[i \in 1..Len(PortfolioSyms(s)) |->
         Holding(PortfolioSyms(s)[i], IF i = 1 THEN Fx(1) ELSE q, c[i])] :
        q \in Quantities, c \in [1..Len(PortfolioSyms(s)) -> Costs]}

\* the currency the provider quotes a symbol in
NativeCcy(symbol) == IF EndsWith(symbol, ".L") THEN "GBP" ELSE "USD"

\* What the price provider answers for one symbol: an exception, or a frame of
\* up to MaxBars bars whose closes are null, zero or MaxPrice (bars before the
\* last two are MaxPrice): with every column, with a null volume, or with the
\* Close or the Volume column missing.
PriceVals == {NaN, 0, Fx(MaxPrice)}
Closes ==
    UNION {{Const(k - 2, Fx(MaxPrice)) \o t : t \in [1..2 -> PriceVals]} : k \in 2..MaxBars}
    \cup [1..1 -> PriceVals] \cup {<< >>}
OneBar == Frame(<<Fx(MaxPrice)>>, <<Fx(1)>>)
HistFrames ==
    {Frame(c, Const(Len(c), Fx(1))) : c \in Closes}
    \cup {[OneBar EXCEPT !.Volume = <<NaN>>], Without(OneBar, "Close"), Without(OneBar, "Volume")}
HistResponses ==
    {HistResponse(TRUE, EmptyFrame)} \cup {HistResponse(FALSE, df) : df \in HistFrames}
\* the answers to the symbols of a set, each frame in the symbol's currency
Answers(S) ==
    {[x \in S |-> [r[x] EXCEPT !.df.ccy = NativeCcy(x)]] : r \in [S -> HistResponses]}

\* what the USD/EUR provider of app.py answers
UsdEurResponses ==
    {[raises |-> TRUE, rates |-> None], [raises |-> FALSE, rates |-> None],
     [raises |-> FALSE, rates |-> [EUR |-> Fx(4) \div 5]]}
\* the rates a StockAnalyzer can hold after its construction
PossibleRates ==
    {_get_exchange_rates(p, s).rates : p \in RateResponses, s \in RateResponses}

Init ==
    /\ site \in Sites
    /\ holdings \in Configs(site)
    /\ symbols = << >>
    /\ data = None
    /\ exchange_rates = None
    /\ last_rate_update = 0
    /\ now = Epoch
    /\ rate_log = << >>
    /\ rate_in = << >>
    /\ requests = << >>
    /\ responses = None
    /\ conv_in = << >>
    /\ converted = EmptyFrame
    /\ summary = None
    /\ chart = None
    /\ predictions = None
    /\ forecast = None
    /\ result = None
    /\ raised = "none"
    /\ pc = "start"

\* the portfolio analyzer is constructed over the symbols of all holdings:
\* CryptoAnalyzer([...]) in app.py and pages/crypto.py, StockAnalyzer([...])
\* in pages/stocks.py, whose constructor fetches the exchange rates
Construct(er) ==
    /\ pc = "start"
    /\ symbols' = [i \in DOMAIN holdings |-> holdings[i].symbol]
    /\ data' = None
    /\ exchange_rates' = IF Kind(site) = "stock" THEN er ELSE None
    /\ last_rate_update' = IF Kind(site) = "stock" THEN now ELSE 0
    /\ pc' = "constructed"
    /\ UNCHANGED <<site, holdings, chart, predictions, forecast,
                   now, rate_log, rate_in, requests, responses,
                   conv_in, converted, summary, result, raised>>

\* portfolio_analyzer.fetch_data(period='1d'), resp being the answers of the
\* price provider.  The call ends within the hour the rate cache lasts, so
\* the cached rates are the ones used.
FetchData(resp) ==
    /\ pc = "constructed"
    /\ LET r == fetch_data(Kind(site), symbols, data, exchange_rates, "1d", resp)
       IN  /\ data' = r.data
           /\ requests' = r.requests
           /\ raised' = r.raised
           /\ pc' = IF r.raised = "none" THEN "fetched" ELSE "failed"
    /\ responses' = resp
    /\ UNCHANGED <<site, holdings, chart, predictions, forecast,
                   symbols, exchange_rates, last_rate_update, now,
                   rate_log, rate_in, conv_in, converted, summary, result>>

\* get_portfolio_summary(analyzer) in app.py, rr being the answer of the
\* USD/EUR provider
AppSummary(rr) ==
    /\ pc = "fetched"
    /\ site = "app"
    /\ summary' = get_portfolio_summary(holdings, data, get_usd_eur_rate(rr))
    /\ raised' = "none"
    /\ pc' = "done"
    /\ UNCHANGED <<site, holdings, chart, predictions, forecast,
                   symbols, data, exchange_rates, last_rate_update,
                   now, rate_log, rate_in, requests, responses, conv_in, converted,
                   result>>

\* create_portfolio_summary(portfolio_analyzer) in pages/crypto.py and
\* pages/stocks.py
PageSummary ==
    /\ pc = "fetched"
    /\ site \in {"crypto", "stocks"}
    /\ LET r == create_portfolio_summary(site, holdings, data)
       IN  /\ summary' = r
           /\ raised' = r.raised
    /\ pc' = "done"
    /\ UNCHANGED <<site, holdings, chart, predictions, forecast,
                   symbols, data, exchange_rates, last_rate_update,
                   now, rate_log, rate_in, requests, responses, conv_in, converted,
                   result>>

Next ==
    \/ \E er \in PossibleRates : Construct(er)
    \/ \E resp \in Answers(Range(symbols)) : FetchData(resp)
    \/ \E rr \in UsdEurResponses : AppSummary(rr)
    \/ PageSummary

Spec == Init /\ [][Next]_vars

----------------------------------------------------------------------------
(* SpecCallback: one firing of the refresh callback of each program:         *)
(* update_page of pages/crypto.py and pages/stocks.py, update_graph of app.py *)

\* the columns get_figure reads of every frame that is not empty
FigureCols == AllCols \cup {"MA20", "BB_upper", "BB_lower", "MACD", "Signal_Line", "RSI"}
\* the start of the x-axis range get_figure derives from its period, the end
\* being now: so many days back and then, except in the else branch, the
\* first day of that month
StartDate(period) ==
    IF period = "1mo" THEN [days_back |-> 0, first_of_month |-> TRUE]
    ELSE IF period = "3mo" THEN [days_back |-> 90, first_of_month |-> TRUE]
    ELSE IF period = "6mo" THEN [days_back |-> 180, first_of_month |-> TRUE]
    ELSE IF period = "1y" THEN [days_back |-> 365, first_of_month |-> TRUE]
    ELSE IF period = "2y" THEN [days_back |-> 730, first_of_month |-> TRUE]
    ELSE [days_back |-> 365, first_of_month |-> FALSE]
\* a figure without an x-axis range
NoStart == [days_back |-> 0 - 1, first_of_month |-> FALSE]
\* def get_figure(self, period='1y')
DefaultPeriod == "1y"
\* analyzer.get_figure(period) over analyzer.data: go.Figure() when there is no
\* data, else the chart, or KeyError at the first column a frame lacks
FigureOf(d, period) ==
    IF DOMAIN d = {} THEN [figure |-> "empty", start |-> NoStart, raised |-> "none"]
    ELSE IF \E x \in DOMAIN d : ~Empty(d[x]) /\ ~(FigureCols \subseteq d[x].cols)
    THEN [figure |-> "none", start |-> NoStart, raised |-> "KeyError"]
    ELSE [figure |-> "chart", start |-> StartDate(period), raised |-> "none"]
\* analyzer.get_figure(), as every callback calls it: without a period
get_figure(d) == FigureOf(d, DefaultPeriod)

\* an analyzer as a callback leaves it
Analyzer(syms, fetched, resp) ==
    [symbols |-> syms, data |-> fetched.data, requests |-> fetched.requests,
     responses |-> resp, raised |-> fetched.raised]
NoAnalyzer ==
    [symbols |-> << >>, data |-> None, requests |-> << >>, responses |-> None,
     raised |-> "none"]

\* the outcomes of a callback: the values it returns, or the exception that
\* leaves it; caught is the exception its except clause caught
Returned(figure, start, children, loading_style, caught) ==
    [kind |-> "returned", figure |-> figure, start |-> start, children |-> children,
     loading_style |-> loading_style, exception |-> "none", caught |-> caught]
Propagated(exception, caught) ==
    [kind |-> "raised", figure |-> "none", start |-> NoStart, children |-> "none",
     loading_style |-> "none", exception |-> exception, caught |-> caught]

\* the except clause of update_page: the page module never imports go, so
\* evaluating go.Figure() raises NameError before anything is returned
PageExcept(exc) == Propagated("NameError", exc)

\* the return statement of update_page and its except clause: a and b are
\* the two analyzers after fetch_data, fig and s what get_figure and
\* create_portfolio_summary gave; the first exception, in the order of the
\* calls, ends the try block
PageReturn(a, b, fig, s) ==
    IF a.raised # "none"
    THEN [chart |-> a, portfolio |-> NoAnalyzer, summary |-> None,
          result |-> PageExcept(a.raised)]
    ELSE IF b.raised # "none"
    THEN [chart |-> a, portfolio |-> b, summary |-> None, result |-> PageExcept(b.raised)]
    ELSE IF fig.raised # "none"
    THEN [chart |-> a, portfolio |-> b, summary |-> None, result |-> PageExcept(fig.raised)]
    ELSE IF s.raised # "none"
    THEN [chart |-> a, portfolio |-> b, summary |-> None, result |-> PageExcept(s.raised)]
    ELSE [chart |-> a, portfolio |-> b, summary |-> s,
          result |-> Returned(fig.figure, fig.start, "summary", "hidden", "none")]

\* the try block of update_page over the two analyzers after fetch_data
PageTry(page, items, a, b) ==
    PageReturn(a, b, get_figure(a.data), create_portfolio_summary(page, items, b.data))

\* update_page(selected, selected_period, n_intervals) of a page: er and resp
\* are the rates and the price answers the chart analyzer gets, er2 and presp
\* those of the portfolio analyzer over the holdings items
update_page(page, sel, period, er, resp, items, er2, presp) ==
    IF sel = << >>
    THEN [chart |-> NoAnalyzer, portfolio |-> NoAnalyzer, summary |-> None,
          result |-> Propagated("PreventUpdate", "none")]
    ELSE PageTry(page, items,
                 Analyzer(sel, fetch_data(Kind(page), sel, None, er, period, resp), resp),
                 Analyzer([i \in DOMAIN items |-> items[i].symbol],
                          fetch_data(Kind(page), [i \in DOMAIN items |-> items[i].symbol],
                                     None, er2, "1d", presp),
                          presp))

\* the body of update_graph after fetch_data: a is the analyzer, c what the
\* second calculate_indicators gave
GraphReturn(a, c) ==
    IF a.raised # "none" THEN [chart |-> a, result |-> Propagated(a.raised, "none")]
    ELSE IF c.raised # "none" THEN [chart |-> a, result |-> Propagated(c.raised, "none")]
    ELSE IF get_figure(c.data).raised # "none"
    THEN [chart |-> a, result |-> Propagated(get_figure(c.data).raised, "none")]
    ELSE [chart |-> a, result |-> Returned(get_figure(c.data).figure, get_figure(c.data).start,
                                      "none", "none", "none")]

\* update_graph(selected_cryptos, selected_period) of app.py: no try block,
\* so what fetch_data, calculate_indicators or get_figure raises leaves the
\* callback
update_graph(sel, period, resp) ==
    GraphReturn(Analyzer(sel, fetch_data("crypto", sel, None, None, period, resp), resp),
                calculate_indicators(sel, fetch_data("crypto", sel, None, None, period, resp).data))

\* what the selector of a program can hold: nothing, one symbol, or both
Selections(s) ==
    {<< >>, <<PortfolioSyms(s)[1]>>, PortfolioSyms(s)}
Periods == {"1d", "1y"}
\* the periods the period selector of a callback can hold here
SelectedPeriods == Periods \cup {"2y"}
\* the holdings of each program: one unit of the first, MaxQty of the second,
\* each at a cost of MaxInvested
CallbackHoldings(s) ==
    [i \in 1..Len(PortfolioSyms(s)) |->
        Holding(PortfolioSyms(s)[i], IF i = 1 THEN Fx(1) ELSE Fx(MaxQty), Fx(MaxInvested))]
\* what the price provider answers a callback for one symbol: an exception, a
\* frame of MaxBars bars, or that frame without the Open or the Volume column
FullFrame == Frame(Const(MaxBars, Fx(MaxPrice)), Const(MaxBars, Fx(1)))
CallbackResponses ==
    {HistResponse(TRUE, EmptyFrame), HistResponse(FALSE, FullFrame),
     HistResponse(FALSE, Without(FullFrame, "Open")),
     HistResponse(FALSE, Without(FullFrame, "Volume"))}
CallbackAnswers(S) ==
    {[x \in S |-> [r[x] EXCEPT !.df.ccy = NativeCcy(x)]] : r \in [S -> CallbackResponses]}
\* the rates an analyzer of the program gets when it is constructed
RatesFor(s) == IF Kind(s) = "stock" THEN PossibleRates ELSE {None}

InitCallback ==
    /\ site \in Sites
    /\ holdings = CallbackHoldings(site)
    /\ symbols = << >>
    /\ data = None
    /\ exchange_rates = None
    /\ last_rate_update = 0
    /\ now = Epoch
    /\ rate_log = << >>
    /\ rate_in = << >>
    /\ requests = << >>
    /\ responses = None
    /\ conv_in = << >>
    /\ converted = EmptyFrame
    /\ summary = None
    /\ chart = None
    /\ predictions = None
    /\ forecast = None
    /\ result = None
    /\ raised = "none"
    /\ pc = "serving"

\* the refresh callback of a page fires
UpdatePage(sel, period, er, resp, er2, presp) ==
    /\ pc = "serving"
    /\ site \in {"crypto", "stocks"}
    /\ LET r == update_page(site, sel, period, er, resp, holdings, er2, presp)
       IN  /\ chart' = r.chart
           /\ symbols' = r.portfolio.symbols
           /\ data' = r.portfolio.data
           /\ requests' = r.portfolio.requests
           /\ responses' = r.portfolio.responses
           /\ exchange_rates' = IF r.portfolio = NoAnalyzer THEN er ELSE er2
           /\ summary' = r.summary
           /\ result' = r.result
           /\ raised' = r.result.exception
    /\ last_rate_update' = IF Kind(site) = "stock" THEN now ELSE 0
    /\ pc' = "returned"
    /\ UNCHANGED <<site, holdings, predictions, forecast, now, rate_log, rate_in,
                   conv_in, converted>>

\* the chart callback of app.py fires
UpdateGraph(sel, period, resp) ==
    /\ pc = "serving"
    /\ site = "app"
    /\ LET r == update_graph(sel, period, resp)
       IN  /\ chart' = r.chart
           /\ result' = r.result
           /\ raised' = r.result.exception
    /\ pc' = "returned"
    /\ UNCHANGED <<site, holdings, predictions, forecast, symbols, data,
                   exchange_rates, last_rate_update, now, rate_log, rate_in, requests,
                   responses, conv_in, converted, summary>>

NextCallback ==
    \/ \E sel \in Selections(site), period \in SelectedPeriods,
          er \in RatesFor(site), er2 \in RatesFor(site) :
          \E resp \in CallbackAnswers(Range(sel)),
             presp \in CallbackAnswers(Range(PortfolioSyms(site))) :
             UpdatePage(sel, period, er, resp, er2, presp)
    \/ \E sel \in Selections(site), period \in SelectedPeriods :
          \E resp \in CallbackAnswers(Range(sel)) : UpdateGraph(sel, period, resp)

SpecCallback == InitCallback /\ [][NextCallback]_vars

----------------------------------------------------------------------------
(* Forecasts: predict_price of the two analyzers *)

\* the fewest observations predict_price fits a model to
MinObs == 30
\* days, when predict_price is called without it (as get_figure does)
DefaultDays == 30

\* the provider key predict_price asks for
PredictTicker(kind, symbol) ==
    IF kind = "stock" \/ InSeq("-USD", symbol.suffix) THEN symbol
    ELSE Sym(symbol.base, Append(symbol.suffix, "-USD"))
\* ticker.history(period='2y', interval='1d')
PredictRequest(kind, symbol) ==
    [key |-> PredictTicker(kind, symbol), period |-> "2y", interval |-> "1d"]

\* prophet_df: the columns ds (the index of the history) and y (its Close),
\* after dropna()
ProphetRows(hd) == [i \in 1..hd.n |-> [ds |-> hd.index[i], y |-> hd.Close[i]]]
DropNa(rows) == SelectSeq(rows, LAMBDA r : r.y # NaN)

\* the elements of a set of numbers in ascending order
RECURSIVE SortSet(_)
SortSet(S) ==
    IF S = {} THEN << >>
    ELSE LET m == CHOOSE x \in S : \A y \in S : x <= y
         IN  <<m>> \o SortSet(S \ {m})
\* Prophet: fit keeps the distinct dates of the frame it is given, in order
\* (history_dates); make_future_dataframe(periods=days, freq='D') returns them
\* followed by the days calendar days after the last of them; predict returns
\* one row for each of these dates
HistoryDates(rows) == SortSet({rows[i].ds : i \in DOMAIN rows})
MakeFutureDataframe(dates, days) ==
    dates \o [i \in 1..days |-> dates[Len(dates)] + i]
ProphetForecast(rows, days) == [ds |-> MakeFutureDataframe(HistoryDates(rows), days)]

\* what a predict_price call gives: self.data and self.predictions after it,
\* the request it issued, the forecast it returned (None for no forecast) and
\* the exception its except clause caught; nothing is raised
Predicted(d, preds, req, out, caught) ==
    [data |-> d, predictions |-> preds, request |-> req, out |-> out,
     caught |-> caught, raised |-> "none"]

\* the end of predict_price: the forecast fc is stored under
\* self.predictions[symbol] and returned
PredictStore(d, preds, req, symbol, hd, fc) ==
    Predicted(d, Put(preds, symbol, [forecast |-> fc, historical_data |-> hd]),
              req, fc, "none")

\* the rest of predict_price once the history hd is there (converted, for a
\* stock): the two length tests around dropna, the fit and the forecast
PredictFrom(d, preds, req, symbol, days, hd, fit_raises) ==
    IF hd.n < MinObs THEN Predicted(d, preds, req, None, "none")
    ELSE IF "Close" \notin hd.cols THEN Predicted(d, preds, req, None, "KeyError")
    ELSE IF Len(DropNa(ProphetRows(hd))) < MinObs THEN Predicted(d, preds, req, None, "none")
    ELSE IF fit_raises THEN Predicted(d, preds, req, None, "Exception")
    ELSE PredictStore(d, preds, req, symbol, hd,
                      ProphetForecast(DropNa(ProphetRows(hd)), days))

\* a variant that works on the charted period and drops the charted series
predict_price_on_chart(kind, d, preds, er, symbol, days, resp, fit_raises) ==
    IF resp.raises \/ Empty(resp.df)
    THEN Predicted(None, preds, [PredictRequest(kind, symbol) EXCEPT !.period = "1d"],
                   None, "none")
    ELSE PredictFrom(None, preds, [PredictRequest(kind, symbol) EXCEPT !.period = "1d"],
                     symbol, days, resp.df, fit_raises)

\* predict_price(symbol, days) of an analyzer of the given kind with
\* self.data = d, self.predictions = preds and (for a stock) the cached rates
\* er; resp is the provider's answer to the history request and fit_raises
\* tells whether Prophet raises while fitting
predict_price(kind, d, preds, er, symbol, days, resp, fit_raises) ==
    IF resp.raises
    THEN Predicted(d, preds, PredictRequest(kind, symbol), None, "Exception")
    ELSE IF Empty(resp.df)
    THEN Predicted(d, preds, PredictRequest(kind, symbol), None, "none")
    ELSE IF kind = "stock"
    THEN IF _convert_to_eur(er, resp.df, symbol).raised # "none"
         THEN Predicted(d, preds, PredictRequest(kind, symbol), None,
                        _convert_to_eur(er, resp.df, symbol).raised)
         ELSE PredictFrom(d, preds, PredictRequest(kind, symbol), symbol, days,
                          _convert_to_eur(er, resp.df, symbol).df, fit_raises)
    ELSE PredictFrom(d, preds, PredictRequest(kind, symbol), symbol, days, resp.df,
                     fit_raises)

----------------------------------------------------------------------------
(* SpecForecast: an analyzer of one symbol, an optional fetch_data, then one *)
(* predict_price call                                                        *)

\* the symbols an analyzer is built over here; the crypto ones include a key
\* that carries "-USD" and one that ends in "USD" without the dash
ForecastSyms(s) ==
    IF Kind(s) = "stock" THEN Range(StockSymSeq)
    ELSE {Sym("CRO", << >>), Sym("BTC", <<"-USD">>), Sym("BTC", <<"USD">>)}

\* The two-year histories the provider returns: n daily rows dated 1..n with a
\* close of 1.0, one of which may be null (the first, the middle or the last
\* one), and whose last row may repeat the date of the row before it.
HistLengths == {0, 1} \cup ((MinObs - 2)..MaxHist)
NullAt(n, where) ==
    IF where = "first" THEN 1 ELSE IF where = "middle" THEN (n + 1) \div 2
    ELSE IF where = "last" THEN n ELSE 0
History(n, where, dup) ==
    [Bars(Const(n, Fx(1)), Const(n, Fx(1)), Const(n, Fx(1)),
          [i \in 1..n |-> IF i = NullAt(n, where) THEN NaN ELSE Fx(1)],
          Const(n, Fx(1)))
        EXCEPT !.index = [i \in 1..n |-> IF dup /\ i = n /\ n > 1 THEN n - 1 ELSE i]]
Histories ==
    {History(n, where, dup) :
        n \in HistLengths, where \in {"none", "first", "middle", "last"}, dup \in BOOLEAN}
    \cup {Without(History(MaxHist, "none", FALSE), "Close"),
          [History(MaxHist, "none", FALSE) EXCEPT !.Volume = [i \in 1..MaxHist |-> NaN]]}
HistoryResponses ==
    {HistResponse(TRUE, EmptyFrame)} \cup {HistResponse(FALSE, df) : df \in Histories}
\* the days predict_price is called with
Horizons == {0, 1, DefaultDays}

InitForecast ==
    /\ site \in {"crypto", "stocks"}
    /\ holdings = << >>
    /\ symbols = << >>
    /\ data = None
    /\ exchange_rates = None
    /\ last_rate_update = 0
    /\ now = Epoch
    /\ rate_log = << >>
    /\ rate_in = << >>
    /\ requests = << >>
    /\ responses = None
    /\ conv_in = << >>
    /\ converted = EmptyFrame
    /\ summary = None
    /\ chart = None
    /\ predictions = None
    /\ forecast = None
    /\ result = None
    /\ raised = "none"
    /\ pc = "new"

\* CryptoAnalyzer([symbol]) / StockAnalyzer([symbol])
FConstruct(symbol, er) ==
    /\ pc = "new"
    /\ symbols' = <<symbol>>
    /\ data' = None
    /\ predictions' = None
    /\ exchange_rates' = er
    /\ last_rate_update' = IF Kind(site) = "stock" THEN now ELSE 0
    /\ pc' = "constructed"
    /\ UNCHANGED <<site, holdings, chart, forecast, now, rate_log, rate_in, requests,
                   responses, conv_in, converted, summary, result, raised>>

\* analyzer.fetch_data(period)
FFetch(period, resp) ==
    /\ pc = "constructed"
    /\ LET r == fetch_data(Kind(site), symbols, data, exchange_rates, period, resp)
       IN  /\ data' = r.data
           /\ requests' = r.requests
           /\ raised' = r.raised
    /\ responses' = resp
    /\ pc' = "fetched"
    /\ UNCHANGED <<site, holdings, chart, predictions, forecast, symbols,
                   exchange_rates, last_rate_update, now, rate_log, rate_in, conv_in,
                   converted, summary, result>>

\* analyzer.predict_price(symbol, days); the call ends within the hour the
\* rate cache lasts
FPredict(symbol, days, resp, fit_raises) ==
    /\ pc \in {"constructed", "fetched"}
    /\ LET r == predict_price(Kind(site), data, predictions, exchange_rates, symbol,
                              days, resp, fit_raises)
       IN  /\ data' = r.data
           /\ predictions' = r.predictions
           /\ forecast' = [symbol |-> symbol, days |-> days, resp |-> resp,
                           fit_raises |-> fit_raises, request |-> r.request,
                           out |-> r.out, caught |-> r.caught]
           /\ raised' = r.raised
    /\ pc' = "predicted"
    /\ UNCHANGED <<site, holdings, chart, symbols, exchange_rates, last_rate_update,
                   now, rate_log, rate_in, requests, responses, conv_in, converted,
                   summary, result>>

NextForecast ==
    \/ \E symbol \in ForecastSyms(site), er \in RatesFor(site) : FConstruct(symbol, er)
    \/ \E period \in Periods, resp \in CallbackAnswers(Range(symbols)) :
          FFetch(period, resp)
    \/ \E symbol \in Range(symbols), days \in Horizons, resp \in HistoryResponses,
          fit_raises \in BOOLEAN : FPredict(symbol, days, resp, fit_raises)

SpecForecast == InitForecast /\ [][NextForecast]_vars

----------------------------------------------------------------------------
(* SpecIndicators: an analyzer of one symbol fetches a daily series without  *)
(* nulls and computes its indicators.                                        *)

\* the longest series the provider returns here
MaxLen == 27

IndicatorSym(s) == IF Kind(s) = "stock" THEN Sym("BAC", << >>) ELSE Sym("BTC", << >>)
IndicatorRates(s) == IF Kind(s) = "stock" THEN FallbackRates ELSE None

\* the lengths of the series: around each window of calculate_indicators
SeriesLengths ==
    {1, RSIWindow - 1, RSIWindow, RSIWindow + 1, BBWindow - 1, BBWindow, BBWindow + 1,
     MACDSlow - 1, MACDSlow, MaxLen}
\* how a close moves from one bar to the next: by one unit up or down, not at
\* all, or up and down in turn
Moves == {"up", "down", "flat", "zigzag"}
Step(move, i) ==
    IF move = "up" THEN 1 ELSE IF move = "down" THEN 0 - 1
    ELSE IF move = "flat" THEN 0 ELSE IF i % 2 = 0 THEN 1 ELSE 0 - 1
\* the bar after which the second movement starts
Turns == {0, 5, 12}
\* the closes start at 100 and move as `first` up to bar `turn` and as `then`
\* after it
RECURSIVE ClosesOf(_, _, _, _)
ClosesOf(n, first, turn, then) ==
    IF n = 1 THEN <<100>>
    ELSE LET prev == ClosesOf(n - 1, first, turn, then)
         IN  Append(prev, prev[n - 1] + Step(IF n <= turn THEN first ELSE then, n))
Series(n, first, turn, then) ==
    Frame([i \in 1..n |-> Fx(ClosesOf(n, first, turn, then)[i])], [i \in 1..n |-> Fx(i)])
SeriesResponses ==
    {HistResponse(FALSE, Series(n, first, turn, then)) :
        n \in SeriesLengths, first \in Moves, turn \in Turns, then \in Moves}

\* CryptoAnalyzer([symbol]) / StockAnalyzer([symbol])
IConstruct ==
    /\ pc = "new"
    /\ symbols' = <<IndicatorSym(site)>>
    /\ data' = None
    /\ predictions' = None
    /\ exchange_rates' = IndicatorRates(site)
    /\ last_rate_update' = IF Kind(site) = "stock" THEN now ELSE 0
    /\ pc' = "constructed"
    /\ UNCHANGED <<site, holdings, chart, forecast, now, rate_log, rate_in, requests,
                   responses, conv_in, converted, summary, result, raised>>

\* analyzer.fetch_data(period), whose last statement is calculate_indicators
IFetch(period, resp) ==
    /\ pc = "constructed"
    /\ LET r == fetch_data(Kind(site), symbols, data, exchange_rates, period, resp)
       IN  /\ data' = CalculateValues(r.data)
           /\ requests' = r.requests
           /\ raised' = r.raised
    /\ responses' = resp
    /\ pc' = "fetched"
    /\ UNCHANGED <<site, holdings, chart, predictions, forecast, symbols,
                   exchange_rates, last_rate_update, now, rate_log, rate_in, conv_in,
                   converted, summary, result>>

\* analyzer.calculate_indicators(), called once more after fetch_data
ICalculate ==
    /\ pc = "fetched"
    /\ LET r == calculate_indicators(symbols, data)
       IN  /\ data' = CalculateValues(r.data)
           /\ raised' = r.raised
    /\ pc' = "calculated"
    /\ UNCHANGED <<site, holdings, chart, predictions, forecast, symbols,
                   exchange_rates, last_rate_update, now, rate_log, rate_in, requests,
                   responses, conv_in, converted, summary, result>>

NextIndicators ==
    \/ IConstruct
    \/ \E period \in Periods, r \in SeriesResponses :
          IFetch(period, [x \in Range(symbols) |->
                             [r EXCEPT !.df.ccy = NativeCcy(x)]])
    \/ ICalculate

SpecIndicators == InitForecast /\ [][NextIndicators]_vars

----------------------------------------------------------------------------
(* SpecOverlap: two executions of update_page of one page run at the same    *)
(* time (the server handles each request in its own thread), statement by    *)
(* statement.  Here chart is the heap of analyzer objects, responses,        *)
(* result and pc are per execution, and requests is the log of the           *)
(* fetch_data calls in the order they ran.                                   *)

Execs == {1, 2}
\* the object the name `analyzer` (`portfolio_analyzer`) of execution e is
\* bound to: a local of the call, so one object per execution
AnalyzerOf_module_level(e) == <<0, "analyzer">>
AnalyzerOf(e) == <<e, "analyzer">>
PortfolioOf(e) == <<e, "portfolio_analyzer">>
Objects == {AnalyzerOf(e) : e \in Execs} \cup {PortfolioOf(e) : e \in Execs}

\* a fresh analyzer object: __init__ with its symbols, and for a
\* StockAnalyzer the rates it fetched
NewObject(syms, er) ==
    [symbols |-> syms, data |-> None, requests |-> << >>, responses |-> None,
     raised |-> "none", rates |-> er]
\* the object as the callback's outcome records it
AsAnalyzer(o) ==
    [symbols |-> o.symbols, data |-> o.data, requests |-> o.requests,
     responses |-> o.responses, raised |-> o.raised]
\* object o after o.fetch_data(period), the provider answering resp
AfterFetch(kind, o, period, resp) ==
    LET r == fetch_data(kind, o.symbols, o.data, o.rates, period, resp)
    IN  [symbols |-> o.symbols, data |-> r.data, requests |-> r.requests,
         responses |-> resp, raised |-> r.raised, rates |-> o.rates]

\* what the provider answers during one execution, for every symbol of the
\* page: a full frame at `price`, but an exception for the first symbol when
\* `first` is "raises", and a frame without Volume for it when `first` is
\* "no volume"
OverlapFrame(price) == Frame(Const(MaxBars, Fx(price)), Const(MaxBars, Fx(1)))
OverlapAnswer(s, price, first) ==
    [x \in Range(PortfolioSyms(s)) |->
        IF first = "raises" /\ x = PortfolioSyms(s)[1] THEN HistResponse(TRUE, EmptyFrame)
        ELSE HistResponse(FALSE,
                [(IF first = "no volume" /\ x = PortfolioSyms(s)[1]
                  THEN Without(OverlapFrame(price), "Volume") ELSE OverlapFrame(price))
                    EXCEPT !.ccy = NativeCcy(x)])]
\* the answers to the chart analyzer and to the portfolio analyzer
OverlapAnswers(s) ==
    {OverlapAnswer(s, 1, "full"), OverlapAnswer(s, MaxPrice, "raises"),
     OverlapAnswer(s, MaxPrice, "no volume")}
PortfolioAnswers(s) ==
    {OverlapAnswer(s, 1, "full"), OverlapAnswer(s, MaxPrice, "raises")}
OverlapRates(s) == IF Kind(s) = "stock" THEN {FallbackRates} ELSE {None}
NoInput == [sel |-> << >>, period |-> "none", er |-> None, resp |-> None, presp |-> None]
NoResult == [kind |-> "none"]

InitOverlap ==
    /\ site \in {"crypto", "stocks"}
    /\ holdings = CallbackHoldings(site)
    /\ symbols = << >>
    /\ data = None
    /\ exchange_rates = None
    /\ last_rate_update = 0
    /\ now = Epoch
    /\ rate_log = << >>
    /\ rate_in = << >>
    /\ requests = << >>
    /\ responses = [e \in Execs |-> NoInput]
    /\ conv_in = << >>
    /\ converted = EmptyFrame
    /\ summary = None
    /\ chart = [o \in Objects |-> NewObject(<< >>, None)]
    /\ predictions = None
    /\ forecast = None
    /\ result = [e \in Execs |-> NoResult]
    /\ raised = "none"
    /\ pc = [e \in Execs |-> "idle"]

OverlapFixed ==
    UNCHANGED <<site, holdings, symbols, data, exchange_rates, last_rate_update, now,
                rate_log, rate_in, conv_in, converted, summary, predictions, forecast,
                raised>>

\* the callback fires: `if not selected: raise PreventUpdate`, else the
\* loader is shown and the try block is entered
OFire(e, sel, period, er, resp, presp) ==
    /\ pc[e] = "idle"
    /\ responses' = [responses EXCEPT ![e] = [sel |-> sel, period |-> period, er |-> er,
                                              resp |-> resp, presp |-> presp]]
    /\ IF sel = << >>
       THEN /\ result' = [result EXCEPT ![e] =
                            [chart |-> NoAnalyzer, portfolio |-> NoAnalyzer,
                             summary |-> None,
                             result |-> Propagated("PreventUpdate", "none")]]
            /\ pc' = [pc EXCEPT ![e] = "returned"]
       ELSE /\ result' = result
            /\ pc' = [pc EXCEPT ![e] = "try"]
    /\ UNCHANGED <<chart, requests>>
    /\ OverlapFixed

\* analyzer = CryptoAnalyzer(selected) / StockAnalyzer(selected)
ONewAnalyzer(e) ==
    /\ pc[e] = "try"
    /\ chart' = [chart EXCEPT ![AnalyzerOf(e)] = NewObject(responses[e].sel, responses[e].er)]
    /\ pc' = [pc EXCEPT ![e] = "constructed"]
    /\ UNCHANGED <<responses, result, requests>>
    /\ OverlapFixed

\* analyzer.fetch_data(period=selected_period); an exception goes to the
\* except clause
OFetch(e) ==
    /\ pc[e] = "constructed"
    /\ LET o == AfterFetch(Kind(site), chart[AnalyzerOf(e)], responses[e].period,
                           responses[e].resp)
       IN  /\ chart' = [chart EXCEPT ![AnalyzerOf(e)] = o]
           /\ requests' = Append(requests, [exec |-> e, object |-> "analyzer"])
           /\ IF o.raised # "none"
              THEN /\ result' = [result EXCEPT ![e] =
                                   PageReturn(AsAnalyzer(o), NoAnalyzer, None, None)]
                   /\ pc' = [pc EXCEPT ![e] = "returned"]
              ELSE /\ result' = result
                   /\ pc' = [pc EXCEPT ![e] = "fetched"]
    /\ UNCHANGED responses
    /\ OverlapFixed

\* portfolio_analyzer = CryptoAnalyzer([...]) / StockAnalyzer([...])
ONewPortfolio(e) ==
    /\ pc[e] = "fetched"
    /\ chart' = [chart EXCEPT ![PortfolioOf(e)] =
                    NewObject([i \in DOMAIN holdings |-> holdings[i].symbol],
                              responses[e].er)]
    /\ pc' = [pc EXCEPT ![e] = "portfolio"]
    /\ UNCHANGED <<responses, result, requests>>
    /\ OverlapFixed

\* portfolio_analyzer.fetch_data(period='1d')
OFetchPortfolio(e) ==
    /\ pc[e] = "portfolio"
    /\ chart' = [chart EXCEPT ![PortfolioOf(e)] =
                    AfterFetch(Kind(site), chart[PortfolioOf(e)], "1d", responses[e].presp)]
    /\ requests' = Append(requests, [exec |-> e, object |-> "portfolio_analyzer"])
    /\ pc' = [pc EXCEPT ![e] = "returning"]
    /\ UNCHANGED <<responses, result>>
    /\ OverlapFixed

\* return analyzer.get_figure(), create_portfolio_summary(portfolio_analyzer),
\* loading_style -- or the except clause
OReturn(e) ==
    /\ pc[e] = "returning"
    /\ result' = [result EXCEPT ![e] =
                     PageTry(site, holdings, AsAnalyzer(chart[AnalyzerOf(e)]),
                             AsAnalyzer(chart[PortfolioOf(e)]))]
    /\ pc' = [pc EXCEPT ![e] = "returned"]
    /\ UNCHANGED <<chart, responses, requests>>
    /\ OverlapFixed

NextOverlap ==
    \/ \E e \in Execs, sel \in Selections(site), period \in Periods,
          er \in OverlapRates(site), resp \in OverlapAnswers(site),
          presp \in PortfolioAnswers(site) : OFire(e, sel, period, er, resp, presp)
    \/ \E e \in Execs : ONewAnalyzer(e)
    \/ \E e \in Execs : OFetch(e)
    \/ \E e \in Execs : ONewPortfolio(e)
    \/ \E e \in Execs : OFetchPortfolio(e)
    \/ \E e \in Execs : OReturn(e)

SpecOverlap == InitOverlap /\ [][NextOverlap]_vars

----------------------------------------------------------------------------
(* SpecSession: one analyzer of two symbols, and up to MaxCalls calls of     *)
(* fetch_data, calculate_indicators, predict_price and get_figure on it, in  *)
(* any order.  requests, responses and result belong to the last call.       *)

\* the calls made on the analyzer
MaxCalls == 3

\* the table _convert_to_eur was given, as it is after the call: the method
\* works on df.copy()
GivenAfterConvert_in_place(er, df, symbol) == _convert_to_eur(er, df, symbol).df
GivenAfterConvert(er, df, symbol) == df

\* the forecast trace get_figure draws for symbol x after its predict_price
\* call r (None for no trace): `if forecast is not None and symbol in
\* self.predictions`, and the trace is built from the returned forecast
Drawn_from_store(r, x) ==
    IF x \in DOMAIN r.predictions THEN r.predictions[x].forecast ELSE None
Drawn(r, x) == IF r.out # None /\ x \in DOMAIN r.predictions THEN r.out ELSE None

\* acc after the forecast part of one round of the loop of get_figure, r
\* being what its predict_price(x) call gave
FigureStep(acc, x, r) ==
    [predictions |-> r.predictions,
     traces |-> IF Drawn(r, x) = None THEN acc.traces ELSE Put(acc.traces, x, Drawn(r, x)),
     requests |-> Append(acc.requests, r.request),
     raised |-> "none"]

\* the loop of get_figure over self.data, whose keys come in `order`: for
\* each frame that is not empty the price traces (KeyError at a missing
\* column), then predict_price(symbol) and the forecast traces; acc holds
\* self.predictions, the forecast traces drawn and the requests made so far
RECURSIVE FigureLoop(_, _, _, _, _, _, _, _)
FigureLoop(kind, order, d, acc, er, presp, fit, i) ==
    IF i > Len(order) THEN acc
    ELSE IF Empty(d[order[i]]) THEN FigureLoop(kind, order, d, acc, er, presp, fit, i + 1)
    ELSE IF ~(FigureCols \subseteq d[order[i]].cols) THEN [acc EXCEPT !.raised = "KeyError"]
    ELSE FigureLoop(kind, order, d,
                    FigureStep(acc, order[i],
                               predict_price(kind, d, acc.predictions, er, order[i],
                                             DefaultDays, presp[order[i]], fit[order[i]])),
                    er, presp, fit, i + 1)

\* the orders in which a dict with the keys S can hold them
Orders(S) ==
    {o \in UNION {[1..n -> S] : n \in {Cardinality(S)}} :
        \A i, j \in DOMAIN o : i # j => o[i] # o[j]}

SessionFrame(price) == Frame(Const(MaxBars, Fx(price)), Const(MaxBars, Fx(1)))
\* what the provider answers one fetch_data call: frames at one of two
\* prices for both symbols, or a failure (an exception, an empty frame) for
\* one of them
SessionAnswer(s, first, second) ==
    [x \in Range(PortfolioSyms(s)) |->
        LET a == IF x = PortfolioSyms(s)[1] THEN first ELSE second
        IN  IF a = "raises" THEN HistResponse(TRUE, EmptyFrame)
            ELSE IF a = "empty" THEN HistResponse(FALSE, EmptyFrame)
            ELSE HistResponse(FALSE, [SessionFrame(IF a = "low" THEN 1 ELSE MaxPrice)
                                         EXCEPT !.ccy = NativeCcy(x)])]
SessionAnswers(s) ==
    {SessionAnswer(s, "low", "low"), SessionAnswer(s, "raises", "high"),
     SessionAnswer(s, "empty", "low"), SessionAnswer(s, "low", "raises")}
\* what the provider answers the history request of predict_price: an
\* exception, or a history of too few or of MaxHist rows
ForecastAnswers ==
    {HistResponse(TRUE, EmptyFrame)}
    \cup {HistResponse(FALSE, History(n, "none", FALSE)) : n \in {MinObs - 1, MaxHist}}
\* the answers to the predict_price calls of one get_figure call
FigureAnswers(s) ==
    {[x \in Range(PortfolioSyms(s)) |->
        IF x = PortfolioSyms(s)[1] THEN a
        ELSE HistResponse(FALSE, History(MaxHist, "none", FALSE))] :
        a \in ForecastAnswers \ {HistResponse(FALSE, History(MinObs - 1, "none", FALSE))}}
\* whether Prophet raises while fitting, for each symbol
FitOutcomes(s) ==
    {[x \in Range(PortfolioSyms(s)) |-> fails /\ x = PortfolioSyms(s)[2]] :
        fails \in BOOLEAN}

Calls == now - Epoch
SessionFixed ==
    UNCHANGED <<site, holdings, chart, symbols, exchange_rates, last_rate_update,
                rate_log, rate_in, converted, summary>>

\* CryptoAnalyzer(symbols) / StockAnalyzer(symbols)
SConstruct ==
    /\ pc = "new"
    /\ symbols' = PortfolioSyms(site)
    /\ data' = None
    /\ predictions' = None
    /\ exchange_rates' = IF Kind(site) = "stock" THEN FallbackRates ELSE None
    /\ last_rate_update' = IF Kind(site) = "stock" THEN now ELSE 0
    /\ pc' = "constructed"
    /\ UNCHANGED <<site, holdings, chart, forecast, now, rate_log, rate_in, requests,
                   responses, conv_in, converted, summary, result, raised>>

\* analyzer.fetch_data(period); conv_in are the tables _convert_to_eur was
\* given in this call, as they are after it
SFetch(period, resp) ==
    /\ pc # "new" /\ Calls < MaxCalls
    /\ LET r == fetch_data(Kind(site), symbols, data, exchange_rates, period, resp)
       IN  /\ data' = r.data
           /\ requests' = r.requests
           /\ raised' = r.raised
    /\ conv_in' = IF Kind(site) = "stock"
                  THEN [x \in {y \in Range(symbols) : ~get_stock_data(y, period, resp[y]).none}
                          |-> GivenAfterConvert(exchange_rates,
                                                get_stock_data(x, period, resp[x]).df, x)]
                  ELSE None
    /\ responses' = resp
    /\ result' = None
    /\ now' = now + 1
    /\ pc' = "fetched"
    /\ UNCHANGED <<predictions, forecast>>
    /\ SessionFixed

\* analyzer.calculate_indicators()
SCalculate ==
    /\ pc # "new" /\ Calls < MaxCalls
    /\ LET r == calculate_indicators(symbols, data)
       IN  /\ data' = r.data
           /\ raised' = r.raised
    /\ requests' = << >>
    /\ responses' = None
    /\ result' = None
    /\ now' = now + 1
    /\ pc' = "calculated"
    /\ UNCHANGED <<predictions, forecast, conv_in>>
    /\ SessionFixed

\* analyzer.predict_price(symbol)
SPredict(symbol, resp, fit_raises) ==
    /\ pc # "new" /\ Calls < MaxCalls
    /\ fit_raises => resp = HistResponse(FALSE, History(MaxHist, "none", FALSE))
    /\ LET r == predict_price(Kind(site), data, predictions, exchange_rates, symbol,
                              DefaultDays, resp, fit_raises)
       IN  /\ data' = r.data
           /\ predictions' = r.predictions
           /\ forecast' = [symbol |-> symbol, days |-> DefaultDays, resp |-> resp,
                           fit_raises |-> fit_raises, request |-> r.request,
                           out |-> r.out, caught |-> r.caught]
           /\ requests' = <<r.request>>
           /\ result' = r.out
           /\ raised' = r.raised
    /\ responses' = None
    /\ now' = now + 1
    /\ pc' = "predicted"
    /\ UNCHANGED conv_in
    /\ SessionFixed

\* analyzer.get_figure(period); forecast records the answers its
\* predict_price calls got
SFigure(period, order, presp, fit) ==
    /\ pc # "new" /\ Calls < MaxCalls
    /\ LET fig == FigureOf(data, period)
           r == FigureLoop(Kind(site), order, data,
                           [predictions |-> predictions, traces |-> None,
                            requests |-> << >>, raised |-> "none"],
                           exchange_rates, presp, fit, 1)
       IN  /\ predictions' = r.predictions
           /\ requests' = r.requests
           /\ result' = [figure |-> fig.figure, start |-> fig.start, traces |-> r.traces]
           /\ raised' = fig.raised
    /\ forecast' = [presp |-> presp, fit |-> fit]
    /\ responses' = None
    /\ now' = now + 1
    /\ pc' = "drawn"
    /\ UNCHANGED <<data, conv_in>>
    /\ SessionFixed

NextSession ==
    \/ SConstruct
    \/ \E resp \in SessionAnswers(site) : SFetch(DefaultPeriod, resp)
    \/ SCalculate
    \/ \E symbol \in Range(symbols), resp \in ForecastAnswers, fit_raises \in BOOLEAN :
          SPredict(symbol, resp, fit_raises)
    \/ \E order \in Orders(DOMAIN data), presp \in FigureAnswers(site),
          fit \in FitOutcomes(site) : SFigure(DefaultPeriod, order, presp, fit)

SpecSession == InitForecast /\ [][NextSession]_vars

----------------------------------------------------------------------------
(* Properties of the portfolio summaries and of fetch_data (Spec) *)

\* the summary was computed
Summarised == pc = "done"
\* fetch_data returned or raised
Fetched == pc \in {"fetched", "failed", "done"}

\* the fields of a row, whose names differ between app.py and the pages
RowInvested(r) == IF site = "app" THEN r.invested_eur ELSE r.invested
RowValue(r) == IF site = "app" THEN r.value_eur ELSE r.current_value
RowProfit(r) == IF site = "app" THEN r.profit_eur ELSE r.profit_loss
RowPct(r) == IF site = "app" THEN r.profit_percentage ELSE r.change_pct
\* the invested amount of a configured holding
Invested(h) == IF site = "app" THEN h.cost ELSE PageInvested(site, h)

RECURSIVE SeqSum(_)
SeqSum(seq) ==
    IF seq = << >> THEN 0
    ELSE FAdd(SeqSum(SubSeq(seq, 1, Len(seq) - 1)), seq[Len(seq)])

RowOf(symbol) == {i \in DOMAIN summary.rows : summary.rows[i].symbol = symbol}

\* C1 (as claimed): in every portfolio summary the reported total invested is
\* the sum of the invested amounts of all configured holdings, whichever
\* symbols were priced.
C1_TotalInvestedAllHoldings ==
    Summarised =>
        summary.total_invested = SeqSum([i \in DOMAIN holdings |-> Invested(holdings[i])])

\* C2 (as claimed): the return percentage of every row is profit/loss divided
\* by the invested amount times 100, it is 0 when the invested amount is 0, and
\* no division by zero is performed (no row carries a non-finite percentage
\* that a division by zero produced).
C2_RowReturnPct ==
    Summarised =>
        \A i \in DOMAIN summary.rows :
            LET r == summary.rows[i]
            IN  /\ RowInvested(r) # 0 => RowPct(r) = Pct(RowProfit(r), RowInvested(r))
                /\ RowInvested(r) = 0 => RowPct(r) = RZero

\* C3 (as claimed): in every summary the price multiplied by the quantity and
\* compared with the EUR cost is a price in EUR.
C3_PriceInEUR ==
    Summarised => \A i \in DOMAIN summary.rows : summary.rows[i].price_ccy = "EUR"

\* C4: a holding whose symbol is absent from analyzer.data never makes the
\* summary raise.  get_portfolio_summary gives it one row with price 0, value
\* 0, profit/loss -invested and return -100%, and the total current value is
\* the sum over the rows of the symbols that are in analyzer.data;
\* create_portfolio_summary gives it no row, and both totals are the sums over
\* the rows there are.
C4_AbsentSymbol ==
    Summarised =>
        /\ summary.raised = "none"
        /\ \A k \in DOMAIN holdings :
              holdings[k].symbol \notin DOMAIN data =>
                  IF site = "app"
                  THEN /\ RowOf(holdings[k].symbol) = {k}
                       /\ summary.rows[k].price_eur = 0
                       /\ summary.rows[k].value_eur = 0
                       /\ summary.rows[k].profit_eur = 0 - holdings[k].cost
                       /\ summary.rows[k].profit_percentage = Minus100
                  ELSE RowOf(holdings[k].symbol) = {}
        /\ LET present == SelectSeq(summary.rows, LAMBDA r : r.symbol \in DOMAIN data)
           IN  /\ summary.total_current = SeqSum([i \in DOMAIN present |-> RowValue(present[i])])
               /\ site # "app" =>
                     /\ Len(present) = Len(summary.rows)
                     /\ summary.total_invested =
                            SeqSum([i \in DOMAIN present |-> RowInvested(present[i])])

\* C4 happens in app.py: the first coin, bought for MaxInvested, has no frame
\* and is shown as a full loss, while the second coin is priced.
C4_Witness ==
    /\ Summarised
    /\ site = "app"
    /\ holdings[1].symbol \notin DOMAIN data
    /\ holdings[2].symbol \in DOMAIN data
    /\ holdings[1].cost = Fx(MaxInvested)
    /\ summary.rows[1].profit_eur = 0 - Fx(MaxInvested)
    /\ summary.rows[1].profit_percentage = Minus100
    /\ summary.rows[2].value_eur > 0
    /\ summary.total_current = summary.rows[2].value_eur

\* C5: the total return percentage is (total current - total invested) /
\* total invested * 100 of the two totals the summary reports, and 0 when the
\* reported total invested is 0.
C5_TotalReturnPct ==
    Summarised =>
        /\ summary.total_invested # 0 =>
              summary.total_pct =
                  Pct(FSub(summary.total_current, summary.total_invested),
                      summary.total_invested)
        /\ summary.total_invested = 0 => summary.total_pct = RZero

\* C5 happens on the stocks page: two priced holdings of different size whose
\* returns are -20% and -100% (average -60%), and a total return computed
\* from the two totals, which is not that average.
C5_Witness ==
    /\ Summarised
    /\ site = "stocks"
    /\ Len(summary.rows) = 2
    /\ summary.rows[1].change_pct = Rat(0 - 20, 1)
    /\ summary.rows[2].change_pct = Minus100
    /\ summary.rows[1].invested # summary.rows[2].invested
    /\ summary.total_invested > 0
    /\ summary.total_pct # Rat(0 - 60, 1)
    /\ summary.total_pct =
           Pct(FSub(summary.total_current, summary.total_invested), summary.total_invested)

\* the provider's answer for a symbol is usable by the fetcher of the
\* analyzer: the request did not raise and the frame is not empty; for a
\* stock, moreover, the frame has the five columns, a Close that is not all
\* null and a Volume that the integer cast of the conversion accepts
FetchSucceeded(x) ==
    /\ ~responses[x].raises
    /\ ~Empty(responses[x].df)
    /\ Kind(site) = "stock" =>
          /\ AllCols \subseteq responses[x].df.cols
          /\ ~AllNull(responses[x].df.Close)
          /\ ~AsTypeIntRaises(Ffill(responses[x].df.Volume))
\* the key the analyzer asks the provider for
TickerOf(x) == IF Kind(site) = "stock" THEN x ELSE CryptoTicker(x)

\* C7: in fetch_data a symbol that fails or comes back empty does not stop
\* the others from being fetched: every symbol of self.symbols is requested,
\* in order; self.data holds exactly the symbols whose own fetch succeeded;
\* and fetch_data raises only when a stored frame lacks a column, never
\* because of a failed symbol.
C7_PartialSuccess ==
    Fetched =>
        /\ Len(requests) = Len(symbols)
        /\ \A i \in DOMAIN symbols : requests[i].key = TickerOf(symbols[i])
        /\ DOMAIN data = {x \in Range(symbols) : FetchSucceeded(x)}
        /\ (pc = "failed") =>
              \E x \in DOMAIN data : ~({"Close", "Volume"} \subseteq responses[x].df.cols)

\* C7 happens: the request for the first symbol raised, the second symbol was
\* fetched all the same and is the only one in self.data.
C7_Witness ==
    /\ pc = "fetched"
    /\ responses[symbols[1]].raises
    /\ Len(requests) = 2
    /\ DOMAIN data = {symbols[2]}
    /\ data[symbols[2]].n = MaxBars

\* a provider result that is empty, lacks a required column or has an
\* all-null Close
Malformed(df) ==
    Empty(df) \/ ~(AllCols \subseteq df.cols) \/ AllNull(df.Close)

\* C8 (as claimed): for both fetchers a provider result that is empty, lacks
\* one of the columns Open/High/Low/Close/Volume, or has an all-null Close is
\* treated as absent: nothing is stored for the symbol and no exception
\* reaches the caller of fetch_data.
C8_MalformedIsAbsent ==
    Fetched =>
        \A x \in Range(symbols) :
            (~responses[x].raises /\ Malformed(responses[x].df)) =>
                (x \notin DOMAIN data /\ raised = "none")

----------------------------------------------------------------------------
(* Properties of the exchange-rate cache (SpecRates) *)

\* a provider's answer yields no rates: the request raised, the status is not
\* 200, the body is not JSON, or the payload has no usable USD and GBP quote
NoRates(resp) ==
    resp.raises \/ resp.status_code # 200 \/ ~resp.json \/ PayloadRaises(resp)
\* the primary provider failed: no rates, or the success flag is not set
PrimaryFailed(p) == NoRates(p) \/ ~p.success
\* the secondary provider (whose payload has no success flag) failed
SecondaryFailed(s) == NoRates(s)
\* the last operation refreshed the rates
Refreshed == rate_in # << >>
\* C9: when the primary and the secondary rate provider both fail,
\* _get_exchange_rates returns the hardcoded rates {USD: 0.9132, GBP: 0.8561};
\* the constructor and the refresh do not raise, and a following
\* _convert_to_eur raises for no reason other than a null Volume in the frame
\* it was given (the integer cast), never because of the rates.
C9_FallbackRates ==
    (Refreshed /\ PrimaryFailed(rate_in[1]) /\ SecondaryFailed(rate_in[2])) =>
        /\ exchange_rates = [USD |-> 9132, GBP |-> 8561]
        /\ (conv_in = << >> => raised = "none")
        /\ (conv_in # << >> =>
              \/ raised = "none"
              \/ /\ raised = "ValueError"
                 /\ "Volume" \in conv_in[1].cols
                 /\ AsTypeIntRaises(conv_in[1].Volume))

\* C9 happens: both providers were asked and failed, and a frame of a US stock
\* was then converted at the hardcoded USD rate.
C9_Witness ==
    /\ Refreshed
    /\ rate_log = <<Primary, Secondary>>
    /\ PrimaryFailed(rate_in[1]) /\ SecondaryFailed(rate_in[2])
    /\ conv_in # << >>
    /\ conv_in[1].Close = <<Fx(1)>>
    /\ ~EndsWith(conv_in[2], ".L")
    /\ raised = "none"
    /\ converted.Close = <<9132>>

\* C10 (as claimed): whenever the primary provider fails in any way, the
\* secondary provider is asked before the hardcoded rates are used, and the
\* hardcoded rates are returned only after the secondary was asked and failed.
C10_SecondaryBeforeFallback ==
    Refreshed =>
        /\ PrimaryFailed(rate_in[1]) => InSeq(Secondary, rate_log)
        /\ exchange_rates = FallbackRates =>
              (InSeq(Secondary, rate_log) /\ SecondaryFailed(rate_in[2]))

\* a step that is a call of _update_exchange_rates: the one the constructor
\* makes, or the one _convert_to_eur starts with
UpdateCall == (pc = "new" /\ pc' = "ready") \/ (pc = "ready" /\ pc' = "converting")

\* C11: within one StockAnalyzer, a call of _update_exchange_rates asks the
\* rate providers and replaces exchange_rates and last_rate_update (by what
\* _get_exchange_rates gave and by the time of the call) if and only if the
\* cache is empty or more than 3600 seconds passed since the last refresh;
\* otherwise no provider is asked and both fields keep their values.
C11_RefreshIffStale ==
    [][UpdateCall =>
          IF exchange_rates = None \/ now - last_rate_update > 3600
          THEN /\ rate_log' # << >>
               /\ rate_log'[1] = Primary
               /\ exchange_rates' = _get_exchange_rates(rate_in'[1], rate_in'[2]).rates
               /\ last_rate_update' = now
          ELSE /\ rate_log' = << >>
               /\ exchange_rates' = exchange_rates
               /\ last_rate_update' = last_rate_update]_vars

\* C11 happens: exactly 3600 seconds after a refresh that ended in the
\* hardcoded rates, _update_exchange_rates asked nobody and kept the cache.
C11_Witness ==
    /\ pc = "converting"
    /\ now - last_rate_update = 3600
    /\ rate_log = << >>
    /\ exchange_rates = FallbackRates

\* C12: whenever _convert_to_eur returns, each of Open, High, Low and Close
\* of the frame it was given is multiplied by one and the same rate, the
\* cached GBP rate when the symbol ends with ".L" and the cached USD rate for
\* every other symbol, and every Volume is the integer part of the volume
\* given; rows and columns are the same.  (A null Volume makes the integer
\* cast raise, and nothing is returned.)
C12_LinearScale ==
    (conv_in # << >> /\ raised = "none") =>
        LET df == conv_in[1]
            rate == IF EndsWith(conv_in[2], ".L")
                    THEN exchange_rates["GBP"] ELSE exchange_rates["USD"]
        IN  /\ converted.cols = df.cols /\ converted.n = df.n
            /\ \A c \in {"Open", "High", "Low", "Close"} \cap df.cols :
                  /\ DOMAIN converted[c] = DOMAIN df[c]
                  /\ \A i \in DOMAIN df[c] :
                        converted[c][i] = IF df[c][i] = NaN THEN NaN
                                          ELSE (df[c][i] * rate) \div Scale
            /\ "Volume" \in df.cols =>
                  /\ DOMAIN converted.Volume = DOMAIN df.Volume
                  /\ \A i \in DOMAIN df.Volume :
                        /\ converted.Volume[i] % Scale = 0
                        /\ converted.Volume[i] <= df.Volume[i]
                        /\ df.Volume[i] - converted.Volume[i] < Scale

\* C12 happens: a London ETF frame with four different prices and a volume of
\* 1.5 was converted at a GBP rate (1.0) that differs from the USD rate (0.8).
C12_Witness ==
    /\ conv_in # << >> /\ raised = "none"
    /\ EndsWith(conv_in[2], ".L")
    /\ exchange_rates = [USD |-> 8000, GBP |-> 10000]
    /\ conv_in[1].Open = <<15000>>
    /\ converted.Open = <<15000>> /\ converted.High = <<20000>>
    /\ converted.Low = <<5000>> /\ converted.Close = <<10000>>
    /\ converted.Volume = <<10000>>

----------------------------------------------------------------------------
(* Properties of predict_price (SpecForecast) *)

\* the observations of the history the provider returned: the distinct dates
\* that carry a close that is not null
Observations(resp) ==
    IF resp.raises \/ "Close" \notin resp.df.cols THEN {}
    ELSE {resp.df.index[i] : i \in {j \in 1..resp.df.n : resp.df.Close[j] # NaN}}
\* the dates of the history the provider returned, in order
FetchedDates(resp) == SortSet({resp.df.index[i] : i \in 1..resp.df.n})

\* C13 (as claimed): predict_price returns a forecast only when the history
\* has at least 30 de-duplicated observations with a close that is not null;
\* with fewer it returns None, stores nothing in self.predictions and raises
\* nothing.
C13_ForecastNeedsObservations ==
    pc = "predicted" =>
        /\ forecast.out # None => Cardinality(Observations(forecast.resp)) >= 30
        /\ Cardinality(Observations(forecast.resp)) < 30 =>
              (forecast.out = None /\ predictions = None /\ raised = "none")

\* C14 (as claimed): a forecast that predict_price(symbol, days) returns has
\* one row for every date of the fetched history, followed by exactly days
\* rows, dated the days after the last date of the history.
C14_ForecastRows ==
    (pc = "predicted" /\ forecast.out # None) =>
        LET dates == FetchedDates(forecast.resp)
        IN  forecast.out.ds =
                dates \o [i \in 1..forecast.days |-> dates[Len(dates)] + i]

\* C15: predict_price asks for the symbol's history with period 2y and
\* interval 1d, whatever period the analyzer last fetched; it leaves self.data
\* as it was, and what it returns is what it returns on an analyzer that has
\* no data.
C15_FixedLookback ==
    [][pc' = "predicted" =>
          /\ forecast'.request.period = "2y"
          /\ forecast'.request.interval = "1d"
          /\ forecast'.request.key.base = forecast'.symbol.base
          /\ data' = data
          /\ forecast'.out =
                predict_price(Kind(site), None, None, exchange_rates, forecast'.symbol,
                              forecast'.days, forecast'.resp, forecast'.fit_raises).out]_vars

\* C15 happens: after a fetch_data over one day (minute bars) that stored the
\* series, predict_price asked for two years of daily bars, returned a
\* forecast, and the series with its indicators is still in self.data.
C15_Witness ==
    /\ pc = "predicted"
    /\ Len(requests) = 1 /\ requests[1].period = "1d" /\ requests[1].interval = "1m"
    /\ forecast.request.period = "2y" /\ forecast.request.interval = "1d"
    /\ forecast.out # None
    /\ forecast.symbol \in DOMAIN data
    /\ data[forecast.symbol].n = MaxBars
    /\ "MA20" \in data[forecast.symbol].cols

\* C26: for every crypto symbol the key predict_price asks the provider for
\* is the key get_crypto_data asks for, symbols that end in USD without
\* containing -USD included.
C26_SameProviderKey ==
    pc = "predicted" /\ Kind(site) = "crypto" =>
        forecast.request.key = CryptoRequest(forecast.symbol, "2y").key

----------------------------------------------------------------------------
(* Properties of calculate_indicators (SpecIndicators) *)

\* the frames of self.data whose indicators were computed
Computed == {x \in DOMAIN data : "MA20" \in DOMAIN data[x]}
Defined(v) == v # NaN
\* the indexes of the rows of a frame: Python's index i is row i + 1
Rows(df) == 1..df.n

\* C16: at every row where MA20, BB_upper and BB_lower all have a value,
\* BB_upper >= MA20 >= BB_lower.
C16_BandsAroundMean ==
    \A x \in Computed : \A i \in Rows(data[x]) :
        LET df == data[x]
        IN  Defined(df.MA20[i]) /\ Defined(df.BB_upper[i]) /\ Defined(df.BB_lower[i])
            => df.BB_upper[i] >= df.MA20[i] /\ df.MA20[i] >= df.BB_lower[i]
\* a series of at least 20 bars whose closes vary: the bands are strictly
\* above and below the mean at its last row
C16_Witness ==
    \E x \in Computed :
        LET df == data[x]
        IN  /\ df.n >= BBWindow
            /\ Defined(df.MA20[df.n])
            /\ df.BB_upper[df.n] > df.MA20[df.n]
            /\ df.MA20[df.n] > df.BB_lower[df.n]

\* a float that is not null (an infinity is a value)
NotNull(r) == r # RNaN
\* 0 <= r <= 100 for a finite fraction r
Within0And100(r) == IsFinite(r) /\ r.num >= 0 /\ r.num <= 100 * r.den

\* C17: every RSI value that is defined lies in [0, 100], whatever the closes,
\* windows of zero average loss or zero average gain included.
C17_RSIRange ==
    \A x \in Computed : \A i \in Rows(data[x]) :
        NotNull(data[x].RSI[i]) => Within0And100(data[x].RSI[i])
\* a series with a window of falling closes only (zero average gain, RSI 0)
\* and a window of rises and falls (RSI strictly between 0 and 100)
C17_Witness ==
    \E x \in Computed : \E i, j \in Rows(data[x]) :
        /\ data[x].RSI[i] = RZero
        /\ NotNull(data[x].RSI[j])
        /\ data[x].RSI[j].num > 0
        /\ data[x].RSI[j].num < 100 * data[x].RSI[j].den

\* the rolling columns of a frame have a value at row i
RollingDefined(df, i) ==
    /\ Defined(df.MA20[i])
    /\ Defined(df.BB_upper[i])
    /\ Defined(df.BB_lower[i])
    /\ Defined(df.Volume_MA20[i])
\* none of the rolling columns of a frame has a value at row i
RollingUndefined(df, i) ==
    /\ ~Defined(df.MA20[i])
    /\ ~Defined(df.BB_upper[i])
    /\ ~Defined(df.BB_lower[i])
    /\ ~Defined(df.Volume_MA20[i])
\* the fetched series has no null
NullFree(df) == ~HasNaN(df.Close) /\ ~HasNaN(df.Volume)

\* C18: for a series without nulls, MA20, BB_upper, BB_lower and Volume_MA20
\* have no value before index 19 and a value from index 19 on, and RSI has no
\* value before index 13 and a value from index 13 on.
C18_DefinedFromWindow ==
    \A x \in Computed : NullFree(data[x]) =>
        \A i \in Rows(data[x]) :
            /\ i < BBWindow => RollingUndefined(data[x], i)
            /\ i >= BBWindow => RollingDefined(data[x], i)
            /\ NotNull(data[x].RSI[i]) <=> i >= RSIWindow

\* C19: MACD, Signal_Line and MACD_histogram have no value before index 25,
\* where the span-26 average has its window filled.
C19_EmaWarmUp ==
    \A x \in Computed : \A i \in Rows(data[x]) :
        i < MACDSlow =>
            /\ ~Defined(data[x].MACD[i])
            /\ ~Defined(data[x].Signal_Line[i])
            /\ ~Defined(data[x].MACD_histogram[i])

\* the closes of a frame rise strictly over its last 20 rows
RisingAtEnd(df) ==
    /\ df.n >= BBWindow
    /\ \A i \in (df.n - BBWindow + 2)..df.n : df.Close[i] > df.Close[i - 1]
\* v is the mean of the w values of win, to the last digit kept
IsMeanOf(v, win, w) == w * v <= Sum(win) /\ Sum(win) < w * (v + 1)

\* C20: when the closes rise strictly over the last 20 bars, MA20 at the last
\* index is the mean of the last 20 closes and RSI there is exactly 100; for
\* the 25 closes 100..124 that is MA20 = 114.5 and RSI = 100.
C20_RisingSeries ==
    \A x \in Computed : RisingAtEnd(data[x]) =>
        LET df == data[x]
        IN  /\ Defined(df.MA20[df.n])
            /\ IsMeanOf(df.MA20[df.n], Window(df.Close, df.n, BBWindow), BBWindow)
            /\ df.RSI[df.n] = Rat(100, 1)
            /\ df.Close = [i \in 1..25 |-> Fx(99 + i)]
                  => df.MA20[df.n] = Fx(229) \div 2
\* the scenario: the 25 closes 100..124 were fetched
C20_Witness ==
    \E x \in Computed :
        /\ data[x].Close = [i \in 1..25 |-> Fx(99 + i)]
        /\ data[x].MA20[25] = Fx(229) \div 2
        /\ data[x].RSI[25] = Rat(100, 1)

\* v is the span-9 recursive average at row i of column macd, given the
\* column of averages so far: alpha = 2 / (span + 1) = 2 / 10
IsSignalAt(signal, macd, i) ==
    signal[i] = IF i = 1 THEN macd[1]
                ELSE ((MACDSignal - 1) * signal[i - 1] + 2 * macd[i]) \div (MACDSignal + 1)

\* C21: at every row where the values are defined, MACD_histogram is
\* MACD - Signal_Line, and Signal_Line is the span-9 recursive EMA of MACD.
C21_HistogramIsDifference ==
    \A x \in Computed : \A i \in Rows(data[x]) :
        LET df == data[x]
        IN  Defined(df.MACD[i]) /\ Defined(df.Signal_Line[i])
               /\ Defined(df.MACD_histogram[i])
            => /\ df.MACD_histogram[i] = df.MACD[i] - df.Signal_Line[i]
               /\ IsSignalAt(df.Signal_Line, df.MACD, i)
\* a series long enough for the line and its signal to differ: the histogram
\* is not zero at the last row
C21_Witness ==
    \E x \in Computed :
        LET df == data[x]
        IN  /\ df.n >= MACDSlow
            /\ Defined(df.MACD_histogram[df.n])
            /\ df.MACD[df.n] # df.Signal_Line[df.n]
            /\ df.MACD_histogram[df.n] # 0

\* the five fetched columns of a frame up to row t, as the provider would
\* have returned them had the series ended there
Prefix(df, t) ==
    [cols |-> AllCols, n |-> t, index |-> SubSeq(df.index, 1, t),
     Open |-> SubSeq(df.Open, 1, t), High |-> SubSeq(df.High, 1, t),
     Low |-> SubSeq(df.Low, 1, t), Close |-> SubSeq(df.Close, 1, t),
     Volume |-> SubSeq(df.Volume, 1, t), ccy |-> df.ccy]
\* the derived values of a frame at row t
DerivedAt(df, t) ==
    <<df.MA20[t], df.BB_upper[t], df.BB_lower[t], df.MACD[t], df.Signal_Line[t],
      df.MACD_histogram[t], df.RSI[t], df.Volume_MA20[t]>>
\* the rows at which a series is cut: the last row before and the first row
\* of each window, and the row before the last
Cuts(n) == {t \in {1, RSIWindow - 1, RSIWindow, BBWindow - 1, BBWindow, MACDSlow, n - 1} :
               t >= 1 /\ t < n}

\* C22: the derived values at row t are those of the series cut after row t:
\* two series that agree up to t have the same values (or the same lack of
\* a value) at t in every derived column, whatever follows.
C22_Causal ==
    \A x \in Computed : \A t \in Cuts(data[x].n) :
        DerivedAt(data[x], t) = DerivedAt(WithIndicators(Prefix(data[x], t)), t)
\* a series of more than 20 bars that turns after bar 12: the values at row
\* 20 are defined and the closes after it move differently from those before
C22_Witness ==
    \E x \in Computed :
        LET df == data[x]
        IN  /\ df.n > BBWindow
            /\ Defined(df.MA20[BBWindow])
            /\ NotNull(df.RSI[BBWindow])
            /\ df.Close[3] > df.Close[2]
            /\ df.Close[df.n] < df.Close[df.n - 1]

----------------------------------------------------------------------------
(* Properties of overlapping callbacks (SpecOverlap) *)

\* what execution e returns when it runs alone on the answers it got
Alone(e) ==
    update_page(site, responses[e].sel, responses[e].period, responses[e].er,
                responses[e].resp, holdings, responses[e].er, responses[e].presp)
\* the position in the log of the fetch_data call of execution e on object o
\* (0 if there was none)
FetchedAt(e, o) ==
    IF \E i \in DOMAIN requests : requests[i] = [exec |-> e, object |-> o]
    THEN CHOOSE i \in DOMAIN requests : requests[i] = [exec |-> e, object |-> o]
    ELSE 0

\* C23: whatever the interleaving, an execution of update_page returns what
\* it would return alone on the same provider answers: its analyzers are its
\* own.
C23_OverlapIsolated ==
    \A e \in Execs : pc[e] = "returned" => result[e] = Alone(e)
\* both executions returned different charts, and the second one fetched its
\* chart between the two fetches of the first
C23_Witness ==
    /\ \A e \in Execs : pc[e] = "returned" /\ result[e].result.kind = "returned"
    /\ result[1].chart.data # result[2].chart.data
    /\ FetchedAt(1, "analyzer") < FetchedAt(2, "analyzer")
    /\ FetchedAt(2, "analyzer") < FetchedAt(1, "portfolio_analyzer")

----------------------------------------------------------------------------
(* Properties of get_portfolio_summary of app.py (Spec) *)

\* a result of get_portfolio_summary has one row per configured holding, in
\* the order of the configuration, and totals that are the sums of its rows
RowsAndTotalsAgree(s) ==
    /\ Len(s.rows) = Len(holdings)
    /\ \A i \in DOMAIN holdings :
          /\ s.rows[i].symbol = holdings[i].symbol
          /\ s.rows[i].balance = holdings[i].quantity
          /\ s.rows[i].invested_eur = holdings[i].cost
    /\ s.total_current = SeqSum([i \in DOMAIN s.rows |-> s.rows[i].value_eur])
    /\ s.total_profit = SeqSum([i \in DOMAIN s.rows |-> s.rows[i].profit_eur])
    /\ s.total_profit = FSub(s.total_current, s.total_invested)
\* analyzer.data with the Close column taken out of every frame, on which
\* the body of the loop raises KeyError
WithoutClose(d) == [x \in DOMAIN d |-> Without(d[x], "Close")]

\* C30: get_portfolio_summary returns one row per configured holding, in
\* configuration order, whether a holding is priced, has too little data or
\* raises while it is processed (as it does on the same data without the
\* Close column), and its total value is the sum of the rows' value_eur and
\* its total profit the sum of the rows' profit_eur, which is the total
\* value minus the total invested
C30_RowPerHoldingAndTotals ==
    (pc = "done" /\ site = "app") =>
        /\ RowsAndTotalsAgree(summary)
        /\ RowsAndTotalsAgree(get_portfolio_summary(holdings, WithoutClose(data),
                                                    summary.eur_rate))
\* a summary with a priced row and a row of a holding with a cost and too
\* little data
C30_Witness ==
    /\ pc = "done" /\ site = "app"
    /\ \E i, j \in DOMAIN summary.rows :
          /\ summary.rows[i].value_eur > 0
          /\ holdings[j].symbol \in DOMAIN data
          /\ data[holdings[j].symbol].n < 2
          /\ summary.rows[j].value_eur = 0 /\ summary.rows[j].invested_eur > 0

----------------------------------------------------------------------------
(* Properties of a session on one analyzer (SpecSession) *)

\* what the provider gave of a stored frame: its rows' timestamps and its
\* Open/High/Low/Close/Volume values
RawSeries(df) ==
    [n |-> df.n, index |-> df.index, Open |-> df.Open, High |-> df.High,
     Low |-> df.Low, Close |-> df.Close, Volume |-> df.Volume]
\* the series fetch_data stores for x out of the provider's answer
FetchedSeries(x) ==
    IF Kind(site) = "stock"
    THEN _convert_to_eur(exchange_rates,
                         get_stock_data(x, DefaultPeriod, responses[x]).df, x).df
    ELSE get_crypto_data(x, DefaultPeriod, responses[x]).df

\* C25: a series stored in self.data stays stored, and its timestamps and
\* Open/High/Low/Close/Volume values are changed by no step other than a
\* fetch_data call in which the symbol's fetch succeeds, which replaces the
\* whole series by the fetched one; calculate_indicators, predict_price and
\* get_figure leave them as they are, and for a stock the table handed to
\* _convert_to_eur is, after the call, still what get_stock_data returned
C25_StoredSeriesImmutable ==
    [][/\ \A x \in DOMAIN data :
             /\ x \in DOMAIN data'
             /\ \/ RawSeries(data'[x]) = RawSeries(data[x])
                \/ /\ pc' = "fetched"
                   /\ FetchSucceeded(x)'
                   /\ RawSeries(data'[x]) = RawSeries(FetchedSeries(x))'
       /\ (pc' = "fetched" /\ Kind(site) = "stock") =>
             \A x \in DOMAIN conv_in' :
                 conv_in'[x] = get_stock_data(x, DefaultPeriod, responses'[x]).df]_vars
\* a stock analyzer that fetched, whose stored Close differs from the table
\* the conversion was given, and on which get_figure then ran over frames
\* carrying the indicator columns
C25_Witness ==
    /\ Kind(site) = "stock" /\ pc = "drawn"
    /\ \E x \in DOMAIN data :
          /\ x \in DOMAIN conv_in
          /\ conv_in[x].Close # data[x].Close
          /\ IndicatorCols \subseteq data[x].cols

\* C28: after a fetch_data call, whatever calls went before it on the same
\* analyzer, self.data holds a series for a symbol only if the symbol's fetch
\* succeeded in that call
C28_NoStaleSeries ==
    pc = "fetched" => \A x \in DOMAIN data : FetchSucceeded(x)

\* what the predict_price(x) call of a get_figure call returns when the
\* provider answers resp and the fit raises or not
ReturnedFor(x, resp, fit_raises) ==
    predict_price(Kind(site), data, predictions, exchange_rates, x, DefaultDays,
                  resp, fit_raises).out
\* the symbols whose round of the loop of get_figure reaches predict_price
\* (get_figure returns at once while self.data is empty, and the loop skips
\* an empty frame)
Charted == {x \in DOMAIN data : ~Empty(data[x])}

\* C29: a predict_price call that returns a forecast has stored that forecast
\* under self.predictions[symbol] and touched no other entry, and a call that
\* returns None leaves self.predictions as it was; get_figure draws forecast
\* traces for exactly the symbols whose own predict_price call in that render
\* returned a forecast, and draws them from that forecast
C29_ForecastStoredIffReturned ==
    [][/\ pc' = "predicted" =>
             IF result' = None THEN predictions' = predictions
             ELSE /\ DOMAIN predictions' = DOMAIN predictions \cup {forecast'.symbol}
                  /\ predictions'[forecast'.symbol].forecast = result'
                  /\ \A x \in DOMAIN predictions \ {forecast'.symbol} :
                        predictions'[x] = predictions[x]
       /\ pc' = "drawn" =>
             /\ DOMAIN result'.traces =
                   {x \in Charted :
                       ReturnedFor(x, forecast'.presp[x], forecast'.fit[x]) # None}
             /\ \A x \in DOMAIN result'.traces :
                   result'.traces[x] =
                       ReturnedFor(x, forecast'.presp[x], forecast'.fit[x])]_vars
\* a figure drawn with a forecast trace for one symbol and none for another
\* symbol, which is charted and has a forecast of an earlier call in
\* self.predictions
C29_Witness ==
    /\ pc = "drawn"
    /\ result.traces # None
    /\ \E x \in DOMAIN predictions \cap DOMAIN data : x \notin DOMAIN result.traces

----------------------------------------------------------------------------
(* Properties of the refresh callbacks (SpecCallback) *)

\* the request fetch_data makes for symbol x with the given period
RequestOf(x, period) ==
    IF Kind(site) = "stock" THEN StockRequest(x, period) ELSE CryptoRequest(x, period)
\* the chart analyzer of the callback ran fetch_data
ChartFetched == pc = "returned" /\ chart # None /\ chart.symbols # << >>

\* the periods the period selector offers
SelectablePeriods == {"1mo", "3mo", "6mo", "1y", "2y"}

\* C27: the figure a refresh returns starts at the date get_figure derives
\* for the period the user selected.
C27_WindowFollowsPeriod ==
    (ChartFetched /\ result.kind = "returned" /\ result.figure = "chart"
        /\ chart.requests[1].period \in SelectablePeriods)
    => result.start = StartDate(chart.requests[1].period)

\* C24: one fetch_data call on an analyzer of N symbols makes exactly N
\* price-history requests, the i-th for the i-th symbol of self.symbols and
\* all for the same period, none of them twice; and calculate_indicators
\* runs after the last of them, so that when it does not raise every stored
\* frame has the derived columns.
C24_OneRequestPerSymbol ==
    ChartFetched =>
        /\ Len(chart.requests) = Len(chart.symbols)
        /\ \E period \in SelectedPeriods : \A i \in DOMAIN chart.symbols :
              chart.requests[i] = RequestOf(chart.symbols[i], period)
        /\ chart.raised = "none" =>
              \A x \in DOMAIN chart.data : IndicatorCols \subseteq chart.data[x].cols
\* two symbols were selected, the request for the first raised, and the
\* second was fetched and has its derived columns
C24_Witness ==
    /\ ChartFetched
    /\ Len(chart.symbols) = 2
    /\ chart.responses[chart.symbols[1]].raises
    /\ Len(chart.requests) = 2
    /\ chart.raised = "none"
    /\ DOMAIN chart.data = {chart.symbols[2]}
    /\ IndicatorCols \subseteq chart.data[chart.symbols[2]].cols

\* C6 (as claimed): if an exception arises in the computation of a refresh
\* callback (update_page of the two pages, update_graph of app.py), no
\* exception leaves the callback: it returns the placeholder (an empty figure,
\* the error message, the loader hidden).  The PreventUpdate a page raises on
\* an empty selection is Dash's way of declining the update and is not
\* counted.
C6_CallbackNeverRaises ==
    (pc = "returned" /\ result.exception # "PreventUpdate") =>
        /\ result.kind = "returned"
        /\ result.caught # "none" =>
              /\ result.figure = "empty"
              /\ result.children = "error"
              /\ result.loading_style = "hidden"

====
